---- MODULE Spec2Model ----
(***************************************************************************)
(* Model of the post-processing pipeline (src/src/processors/              *)
(* post_processor.py) and of the query-result cache (src/src/utils/        *)
(* cache.py) of SentientEcho.                                              *)
(*                                                                         *)
(* Python strings are modelled as sequences of one-character strings, so   *)
(* that the text conversions (fingerprinting, quality predicates, query    *)
(* normalisation) are computed character by character as the code does.    *)
(***************************************************************************)
EXTENDS Integers, Sequences, FiniteSets, TLC

\* ---------------------------------------------------------------------
\* Generic helpers
\* ---------------------------------------------------------------------
Min(a, b) == IF a <= b THEN a ELSE b
Max(a, b) == IF a >= b THEN a ELSE b
Range(s) == {s[i] : i \in 1..Len(s)}
\* Python slice seq[:n] for n >= 0
Take(s, n) == SubSeq(s, 1, Min(n, Len(s)))
Rep(c, n) == [i \in 1..n |-> c]
NoneVal == "None"

\* ---------------------------------------------------------------------
\* Characters and Python str methods
\* ---------------------------------------------------------------------
LowerLetters == <<"a","b","c","d","e","f","g","h","i","j","k","l","m",
                  "n","o","p","q","r","s","t","u","v","w","x","y","z">>
UpperLetters == <<"A","B","C","D","E","F","G","H","I","J","K","L","M",
                  "N","O","P","Q","R","S","T","U","V","W","X","Y","Z">>
Digits == {"0","1","2","3","4","5","6","7","8","9"}
IsLetter(c) == c \in Range(LowerLetters) \cup Range(UpperLetters)
\* str.isspace for the characters of the model
IsSpace(c) == c \in {" ", "\t", "\n"}
\* regex class \w
IsWordChar(c) == IsLetter(c) \/ c \in Digits \/ c = "_"
\* regex class [a-zA-Z]|[0-9]|[$-_@.&+]|[!*\\(\\),] of the URL pattern;
\* the range $-_ is ASCII 0x24..0x5F
UrlPunct == {"$","%","&","'","(",")","*","+",",","-",".","/",":",";","<",
             "=",">","?","@","[","\\","]","^","_","!"}
IsUrlChar(c) == IsLetter(c) \/ c \in Digits \/ c \in UrlPunct

LowerChar(c) ==
    IF c \in Range(UpperLetters)
    THEN LowerLetters[CHOOSE i \in 1..26 : UpperLetters[i] = c]
    ELSE c
\* str.lower
StrLower(s) == [i \in 1..Len(s) |-> LowerChar(s[i])]

\* str.strip
StrStrip(s) ==
    LET ns == {i \in 1..Len(s) : ~IsSpace(s[i])}
    IN IF ns = {} THEN <<>>
       ELSE SubSeq(s, CHOOSE i \in ns : \A j \in ns : i <= j,
                      CHOOSE i \in ns : \A j \in ns : i >= j)

Indices(s) == [i \in 1..Len(s) |-> i]
\* the subsequence of s at the indices idx, in order
AtIndices(s, idx) == [k \in 1..Len(idx) |-> s[idx[k]]]

\* str.split() : the maximal runs of non-whitespace characters
StrSplit(s) ==
    LET IsStart(i) == ~IsSpace(s[i]) /\ (i = 1 \/ IsSpace(s[i - 1]))
        IsEnd(i) == ~IsSpace(s[i]) /\ (i = Len(s) \/ IsSpace(s[i + 1]))
        starts == SelectSeq(Indices(s), IsStart)
        ends == SelectSeq(Indices(s), IsEnd)
    IN [k \in 1..Len(starts) |-> SubSeq(s, starts[k], ends[k])]

RECURSIVE JoinFrom(_, _)
JoinFrom(words, i) ==
    IF i > Len(words) THEN <<>>
    ELSE IF i = Len(words) THEN words[i]
    ELSE words[i] \o <<" ">> \o JoinFrom(words, i + 1)
\* ' '.join(words)
StrJoin(words) == JoinFrom(words, 1)

\* str.startswith(prefix)
StartsWith(s, p) == Len(s) >= Len(p) /\ SubSeq(s, 1, Len(p)) = p

\* str.replace(c, '') for a one-character c
RemoveChar(s, c) == SelectSeq(s, LAMBDA x : x # c)

\* ---------------------------------------------------------------------
\* PostProcessor._normalize_content
\* ---------------------------------------------------------------------
\* first index after  http[s]?://  when that prefix starts at i, else 0
UrlBody(s, i) ==
    LET at(p) == i + Len(p) - 1 <= Len(s) /\ SubSeq(s, i, i + Len(p) - 1) = p
    IN IF at(<<"h","t","t","p","s",":","/","/">>) THEN i + 8
       ELSE IF at(<<"h","t","t","p",":","/","/">>) THEN i + 7
       ELSE 0

\* position i lies in a match of  http[s]?://(urlchar)+ : some prefix at
\* j <= i is followed by at least one URL character and the run of URL
\* characters after it reaches i (the match is greedy; every character of
\* a later prefix inside the run is itself a URL character)
InUrl(s, i) ==
    \E j \in 1..i :
        LET b == UrlBody(s, j)
        IN /\ b > 0
           /\ b <= Len(s)
           /\ IsUrlChar(s[b])
           /\ \A k \in b..i : IsUrlChar(s[k])

\* re.sub(r'http[s]?://(...)+', '', content)
StripUrls(s) ==
    AtIndices(s, SelectSeq(Indices(s), LAMBDA i : ~InUrl(s, i)))

\* position i lies in a match of  [@#]\w+
InTag(s, i) ==
    \/ s[i] \in {"@", "#"} /\ i < Len(s) /\ IsWordChar(s[i + 1])
    \/ /\ IsWordChar(s[i])
       /\ \E j \in 1..(i - 1) :
            s[j] \in {"@", "#"} /\ \A k \in (j + 1)..i : IsWordChar(s[k])

\* re.sub(r'[@#]\w+', '', content)
StripTags(s) ==
    AtIndices(s, SelectSeq(Indices(s), LAMBDA i : ~InTag(s, i)))

FingerprintLen == 100

NormalizeContent(content) ==
    Take(StrLower(StrJoin(StrSplit(StripTags(StripUrls(content))))), FingerprintLen)

\* ---------------------------------------------------------------------
\* Posts (src/src/models/post.py).  A post object is identified by its
\* position in the list handed to process_posts; its immutable
\* attributes come from PostPool, its mutable ones (summary, sentiment,
\* relevance_score) are state.  Times are in hours.
\* ---------------------------------------------------------------------
ContentPython ==
    <<"P","y","t","h","o","n"," ","i","s"," ","g","r","e","a","t"," ","f","o","r"," ","n","e","w"," ","d","e","v","s"," ","t","o","d","a","y">>
ContentPythonNoisy ==
    <<"P","Y","T","H","O","N"," "," ","i","s"," ","g","r","e","a","t"," ","f","o","r"," ","n","e","w"," ","d","e","v","s"," ","t","o","d","a","y"," ","h","t","t","p",":","/","/","t",".","c","o","/","x","1"," ","@","b","o","b"," ","#","p","y">>
ContentRust ==
    <<"R","u","s","t"," ","m","a","k","e","s"," ","s","y","s","t","e","m","s"," ","c","o","d","e"," ","s","a","f","e">>
ContentJava ==
    <<"J","a","v","a"," ","m","a","k","e","s"," ","s","y","s","t","e","m","s"," ","c","o","d","e"," ","s","l","o","w">>
ContentShort ==
    <<"T","o","o"," ","s","h","o","r","t">>
ContentTags ==
    <<"@","a","l","i","c","e"," ","@","b","o","b"," ","#","p","y","t","h","o","n"," ","#","r","u","s","t"," ","h","t","t","p",":","/","/","x",".","i","o","/","a"," ","o","k">>
ContentGo ==
    <<"G","o"," ","m","a","k","e","s"," ","s","e","r","v","e","r"," ","c","o","d","e"," ","s","i","m","p","l","e">>
ContentNews ==
    <<"N","e","x","t"," ","w","e","e","k"," ","n","e","w","s"," ","a","b","o","u","t"," ","p","y","t","h","o","n"," ","r","e","l","e","a","s","e">>
ContentTweet ==
    <<"A"," ","t","w","e","e","t"," ","w","i","t","h"," ","a","n"," ","a","w","a","r","e"," ","t","i","m","e"," ","s","t","a","m","p">>
ContentLongHead ==
    <<"a","a"," ","b","b"," ","c","c"," ","d","d"," ","e","e"," ">>
\* 501 characters whose first 100 are shared with ContentLongB
ContentLongA == ContentLongHead \o Rep("z", 85) \o Rep("x", 401)
ContentLongB == ContentLongHead \o Rep("z", 85) \o <<"y">>

\* the instant at which process_posts is called
Now0 == 1000

Post(source, content, content_is_str, engagement, engagement_is_num, created, aware) ==
    [source |-> source, content |-> content, content_is_str |-> content_is_str,
     engagement_score |-> engagement, engagement_is_num |-> engagement_is_num,
     created_at |-> created, tz_aware |-> aware]

PostPool == <<
    Post("Reddit",  ContentPython,      TRUE,  100, TRUE,  Now0 - 24,  FALSE),
    Post("Twitter", ContentPythonNoisy, TRUE,  10,  TRUE,  Now0 - 168, FALSE),
    Post("Reddit",  ContentRust,        TRUE,  10,  TRUE,  Now0 - 168, FALSE),
    Post("Reddit",  ContentJava,        TRUE,  10,  TRUE,  Now0 - 30,  FALSE),
    Post("Reddit",  ContentRust,        TRUE,  10,  TRUE,  Now0 - 30,  FALSE),
    Post("Twitter", ContentShort,       TRUE,  50,  TRUE,  Now0 - 1,   FALSE),
    Post("Twitter", ContentTags,        TRUE,  50,  TRUE,  Now0 - 1,   FALSE),
    Post("Reddit",  ContentGo,          TRUE,  -1,  TRUE,  Now0 - 1,   FALSE),
    Post("Reddit",  ContentLongA,       TRUE,  0,   TRUE,  Now0 - 200, FALSE),
    Post("Twitter", ContentLongB,       TRUE,  0,   TRUE,  Now0 - 200, FALSE),
    Post("Reddit",  ContentNews,        TRUE,  100, TRUE,  Now0 + 240, FALSE),
    Post("Twitter", ContentTweet,       TRUE,  5,   TRUE,  Now0 - 2,   TRUE),
    Post("Reddit",  <<>>,               FALSE, 5,   TRUE,  Now0 - 2,   FALSE),
    Post("Reddit",  ContentGo,          TRUE,  0,   FALSE, Now0 - 2,   FALSE) >>
PoolIds == 1..Len(PostPool)

\* ---------------------------------------------------------------------
\* State
\* ---------------------------------------------------------------------
VARIABLES
    posts,            \* process_posts argument: sequence of PostPool ids
    max_posts,        \* process_posts argument
    pc,               \* position of process_posts / _enhance_posts_parallel
    summary,          \* Post.summary, by position in posts
    sentiment,        \* Post.sentiment, by position in posts
    relevance_score,  \* Post.relevance_score, by position: <<>> is None
    unique_posts,     \* local of process_posts (positions in posts)
    filtered_posts,   \* local of process_posts (positions in posts)
    task,             \* state of bounded_enhance(task i)
    task_result,      \* what task i handed to gather: <<pos>> or <<>>
    semaphore,        \* value of asyncio.Semaphore(5)
    enhanced_posts,   \* value returned by _enhance_posts_parallel
    ranked_posts,     \* value returned by _rank_posts
    result,           \* value returned by process_posts
    path,             \* which return statement of process_posts was taken
    now,              \* last value read from datetime.now()
    cache,            \* LRUCache.cache: the OrderedDict as a sequence of <<key, value>>
    timestamps,       \* LRUCache.timestamps: function from keys to set times
    max_size,         \* LRUCache.max_size
    ttl_seconds,      \* LRUCache.ttl_seconds
    time,             \* time.time()
    hit_count,        \* QueryCache.hit_count
    miss_count,       \* QueryCache.miss_count
    ret,              \* value returned by the last get / get_cached_result
    last_set,         \* history: the words of the query of a cache_result that was the last operation
    use_order,        \* history: held keys, least recently set or hit first
    last_evicted,     \* history: keys the last set removed for capacity
    set_time,         \* history: time of the most recent set of each key
    reads,            \* history: hits of each key since its most recent set
    expired_get,      \* history: the key the last get found expired, in a set
    wall_clock,       \* time.time() as read by the server and security objects
    ticks,            \* number of times the clock has advanced
    requests,         \* RateLimiter.requests: function from keys to deques of times
    rl_max_requests,  \* RateLimiter.max_requests
    rl_window_seconds,\* RateLimiter.window_seconds
    rl_last,          \* the last is_allowed call: its arguments and its result
    rl_calls,         \* number of is_allowed calls made
    admitted,         \* history: admission times of each (client, endpoint) pair
    rejected,         \* history: the pairs that were rejected at least once
    cb_state,         \* CircuitBreaker.state
    failure_count,    \* CircuitBreaker.failure_count
    last_failure_time,\* CircuitBreaker.last_failure_time: <<>> is None
    failure_threshold,\* CircuitBreaker.failure_threshold
    recovery_timeout, \* CircuitBreaker.recovery_timeout
    cb_last,          \* the last call: the state it found, whether func ran, whether it raised
    streak,           \* history: failing runs of func since the last successful one
    v_query,          \* argument of InputValidator.validate_query
    v_result,         \* its return value (is_valid, error_message); <<>> before the call
    env,              \* the required settings found in the environment
    name_arg,         \* argument of SentientEchoAgent(name)
    a_pc,             \* position in the import and in SentientEchoAgent.__init__
    agent,            \* attributes of the agent object set so far, with their values
    a_error,          \* exception that ended the construction, "" if none
    as_pc,            \* position in SentientEchoAgent.assist
    prompt_is_str,    \* whether query.prompt is a string
    enable_summaries, \* settings.enable_summaries
    cached_result,    \* local of assist: <<>> is None, <<d>> the cached dict d
    processed_query,  \* local of assist: the two search flags; both FALSE before it is assigned
    search_results,   \* local of assist
    reddit_posts,     \* local of assist
    twitter_posts,    \* local of assist
    all_posts,        \* local of assist
    processed_posts,  \* local of assist
    events,           \* the calls made on response_handler and its stream, in order
    response_cached,  \* whether cache_query_result stored the response
    query_cache,      \* the query cache's entry for the prompt: <<>> is none, <<d>> the dict d
    calls,            \* the collaborators this invocation of assist has called
    stored_run,       \* history: <<>> or the number of json events of the run that stored the entry
    later,            \* whether this is the later of the two invocations
    qp_query,         \* argument of QueryProcessor.process_query
    qp_llm,           \* what the language-model call does during it
    qp_result,        \* its return value in a tuple; <<>> before it returns
    blocked_queries,  \* SecurityMonitor.blocked_queries
    suspicious_ips,   \* SecurityMonitor.suspicious_ips: function from addresses to event lists
    rate_limit_violations, \* SecurityMonitor.rate_limit_violations
    sm_last,          \* the last call on the monitor: its argument and what is_suspicious_ip returned
    sm_logs,          \* number of log calls made
    logged,           \* history: every blocked-query event logged, never pruned
    has_app,          \* whether the framework's server object has an _app attribute
    srv_pc,           \* where the HTTP request being served is
    srv_req,          \* the request being served: path, client address and body
    srv_resp,         \* the response to it: status, message, retry_after and the time it was made
    srv_passed,       \* the checks the request has passed
    srv_assist,       \* number of times agent.assist was invoked for the request
    srv_count,        \* number of requests received
    cm_initialized,   \* CacheManager._initialized
    cm_tasks,         \* number of cleanup tasks created so far
    sweep_pc,         \* where cleanup_loop is: none, sleeping, or about to clean one of the caches
    sweep_failures,   \* number of iterations of cleanup_loop that raised
    cm_entries,       \* for each cache of the manager, <<>> or the timestamp of its entry
    cm_sets,          \* number of entries stored so far
    trial_failed      \* history: time of the last failed HALF_OPEN run since the last success

pvars == <<posts, max_posts, pc, summary, sentiment, relevance_score,
           unique_posts, filtered_posts, task, task_result, semaphore,
           enhanced_posts, ranked_posts, result, path, now>>
cvars == <<cache, timestamps, max_size, ttl_seconds, time, hit_count,
           miss_count, ret, last_set, use_order, last_evicted>>
hvars == <<set_time, reads, expired_get>>
tvars == <<wall_clock, ticks>>
rvars == <<requests, rl_max_requests, rl_window_seconds, rl_last, rl_calls,
           admitted, rejected>>
bvars == <<cb_state, failure_count, last_failure_time, failure_threshold,
           recovery_timeout, cb_last, streak, trial_failed>>
ivars == <<v_query, v_result>>
avars == <<env, name_arg, a_pc, agent, a_error>>
svars == <<as_pc, prompt_is_str, enable_summaries, cached_result,
           processed_query, search_results, reddit_posts, twitter_posts,
           all_posts, processed_posts, events, response_cached,
           query_cache, calls, stored_run, later>>
\* everything outside the post pipeline and the cache
qvars == <<qp_query, qp_llm, qp_result>>
mvars == <<blocked_queries, suspicious_ips, rate_limit_violations, sm_last,
           sm_logs, logged>>
evars == <<has_app, srv_pc, srv_req, srv_resp, srv_passed, srv_assist, srv_count>>
gvars == <<cm_initialized, cm_tasks, sweep_pc, sweep_failures, cm_entries, cm_sets>>
xvars == <<tvars, rvars, bvars, ivars, avars, svars, qvars, mvars, evars, gvars>>
\* everything outside the rate limiter and the clock
not_rvars == <<pvars, cvars, hvars, bvars, ivars, avars, svars, qvars, mvars, evars, gvars>>
\* everything outside the circuit breaker and the clock
not_bvars == <<pvars, cvars, hvars, rvars, ivars, avars, svars, qvars, mvars, evars, gvars>>
\* everything outside the input validator
not_ivars == <<pvars, cvars, hvars, tvars, rvars, bvars, avars, svars, qvars, mvars, evars, gvars>>
\* everything outside the construction of the agent
not_avars == <<pvars, cvars, hvars, tvars, rvars, bvars, ivars, svars, qvars, mvars, evars, gvars>>
\* everything outside assist
not_svars == <<pvars, cvars, hvars, tvars, rvars, bvars, ivars, avars, qvars, mvars, evars, gvars>>
\* everything outside the query processor
not_qvars == <<pvars, cvars, hvars, tvars, rvars, bvars, ivars, avars, svars, mvars, evars, gvars>>
\* everything outside the security monitor and the clock
not_mvars == <<pvars, cvars, hvars, rvars, bvars, ivars, avars, svars, qvars, evars, gvars>>
\* everything outside the HTTP server
not_evars == <<pvars, cvars, hvars, tvars, rvars, bvars, ivars, avars, svars, qvars, mvars, gvars>>
\* everything the HTTP server does not touch
srv_rest == <<pvars, cvars, hvars, bvars, ivars, avars, svars, qvars, gvars>>
\* everything outside the cache manager and the clock
not_gvars == <<pvars, cvars, hvars, rvars, bvars, ivars, avars, svars, qvars, evars, mvars>>
vars == <<pvars, cvars, hvars, xvars>>

\* attribute access: the PostPool record of the post at position p
PostAt(p) == PostPool[posts[p]]

\* ---------------------------------------------------------------------
\* PostProcessor._remove_duplicates
\* ---------------------------------------------------------------------
\* self._normalize_content(post.content) for every post of the pool
\* (<<>> stands for the call that raises)
NormalizedContentOf ==
    [k \in PoolIds |->
        IF PostPool[k].content_is_str THEN NormalizeContent(PostPool[k].content)
        ELSE <<>>]

\* re.sub on a content that is not a str raises TypeError
NormalizeRaises(ps) == \E i \in 1..Len(ps) : ~PostAt(ps[i]).content_is_str

RECURSIVE RemoveDuplicatesFrom(_, _, _, _)
RemoveDuplicatesFrom(ps, i, seen_content, unique) ==
    IF i > Len(ps) THEN unique
    ELSE LET normalized_content == NormalizedContentOf[posts[ps[i]]]
         IN IF normalized_content \notin seen_content
            THEN RemoveDuplicatesFrom(ps, i + 1,
                     seen_content \cup {normalized_content}, Append(unique, ps[i]))
            ELSE RemoveDuplicatesFrom(ps, i + 1, seen_content, unique)

\* variant: the last post of each fingerprint is kept
RemoveDuplicatesKeepLast(ps) ==
    AtIndices(ps, SelectSeq(Indices(ps), LAMBDA i : \A j \in (i + 1)..Len(ps) :
        NormalizedContentOf[posts[ps[j]]] # NormalizedContentOf[posts[ps[i]]]))
RemoveDuplicates(ps) == RemoveDuplicatesFrom(ps, 1, {}, <<>>)

\* ---------------------------------------------------------------------
\* PostProcessor._filter_quality
\* ---------------------------------------------------------------------
MinContentLen == 20
MinContentWords == 5

TooShort(post) == Len(StrStrip(post.content)) < MinContentLen

\* words of the content that do not start with 'http', '@' or '#'
ContentWords(post) ==
    Len(SelectSeq(StrSplit(post.content),
                  LAMBDA word : /\ ~StartsWith(word, <<"h","t","t","p">>)
                                /\ ~StartsWith(word, <<"@">>)
                                /\ ~StartsWith(word, <<"#">>)))

\* the two content predicates for every post of the pool
TooShortOf == [k \in PoolIds |-> TooShort(PostPool[k])]
ContentWordsOf == [k \in PoolIds |-> ContentWords(PostPool[k])]

\* post.engagement_score < 0 is reached only for posts that are long
\* enough, and raises TypeError when the score is None
FilterRaises(ps) ==
    \E i \in 1..Len(ps) :
        ~TooShortOf[posts[ps[i]]] /\ ~PostAt(ps[i]).engagement_is_num

\* the post at position p passes the three checks of the loop body
KeepPost(p) ==
    /\ ~TooShortOf[posts[p]]
    /\ ~(PostAt(p).engagement_score < 0)
    /\ ~(ContentWordsOf[posts[p]] < MinContentWords)

FilterQuality(ps) == SelectSeq(ps, KeepPost)

\* ---------------------------------------------------------------------
\* PostProcessor._rank_posts
\* Scores are exact rationals: a relevance_score is kept as its numerator
\* over ScoreOne(batch), the number that stands for 1.0 in that batch.
\* ---------------------------------------------------------------------
WeekHours == 168              \* 24 * 7
OptimalLength == 500
EngagementWeight == 40        \* 0.4, in hundredths
RecencyWeight == 20           \* 0.2
LengthWeight == 20            \* 0.2
PositiveBonus == 10           \* 0.1
NeutralBonus == 5             \* 0.05
RedditBonus == 5              \* 0.05

RECURSIVE MaxEngagementFrom(_, _)
MaxEngagementFrom(ps, i) ==
    IF i = Len(ps) THEN PostAt(ps[i]).engagement_score
    ELSE Max(PostAt(ps[i]).engagement_score, MaxEngagementFrom(ps, i + 1))
\* max(p.engagement_score for p in posts) if posts else 1
MaxEngagement(ps) == IF ps = <<>> THEN 1 ELSE MaxEngagementFrom(ps, 1)

\* denominator of the engagement division (1 when the term is forced to 0)
EngDen(ps) == IF MaxEngagement(ps) > 0 THEN MaxEngagement(ps) ELSE 1
ScoreOne(ps) == 100 * EngDen(ps) * WeekHours * OptimalLength

\* max(0, 1 - age_hours / (24 * 7)), times WeekHours
RecencyFactor(age_hours) == Max(0, WeekHours - age_hours)

\* min(1.0, content_length / 500), times OptimalLength
LengthFactor(content_length) == Min(OptimalLength, content_length)

SentimentBonus(s) ==
    IF s = "positive" THEN PositiveBonus
    ELSE IF s = "neutral" THEN NeutralBonus
    ELSE 0

SourceBonus(source) == IF source = "Reddit" THEN RedditBonus ELSE 0

\* calculate_score(post) for the post at position p of batch ps, when
\* datetime.now() returns clock and post.sentiment is sent
CalculateScore(p, ps, clock, sent) ==
    LET post == PostAt(p)
        engagement ==
            IF MaxEngagement(ps) > 0
            THEN EngagementWeight * post.engagement_score * WeekHours * OptimalLength
            ELSE 0
        recency ==
            RecencyWeight * RecencyFactor(clock - post.created_at)
                * EngDen(ps) * OptimalLength
        length ==
            LengthWeight * LengthFactor(Len(post.content)) * EngDen(ps) * WeekHours
        bonus ==
            (SentimentBonus(sent) + SourceBonus(post.source))
                * EngDen(ps) * WeekHours * OptimalLength
    IN engagement + recency + length + bonus

\* now - post.created_at raises TypeError for an offset-aware created_at:
\* index in ps of the first post whose scoring raises, 0 if none does
RankRaisesAt(ps) ==
    IF \E i \in 1..Len(ps) : PostAt(ps[i]).tz_aware
    THEN CHOOSE i \in 1..Len(ps) :
            /\ PostAt(ps[i]).tz_aware
            /\ \A j \in 1..(i - 1) : ~PostAt(ps[j]).tz_aware
    ELSE 0

\* key of sorted(): p.relevance_score or 0
SortKey(score, p) == IF score[p] = <<>> THEN 0 ELSE score[p][1]

\* variant: equal keys end up in reverse input order
RECURSIVE InsertDescStrict(_, _, _, _)
InsertDescStrict(sorted, x, score, i) ==
    IF i > Len(sorted) THEN Append(sorted, x)
    ELSE IF SortKey(score, sorted[i]) > SortKey(score, x)
         THEN InsertDescStrict(sorted, x, score, i + 1)
         ELSE SubSeq(sorted, 1, i - 1) \o <<x>> \o SubSeq(sorted, i, Len(sorted))

\* sorted(..., reverse=True) keeps equal keys in their input order:
\* x goes behind every element whose key is at least its own
RECURSIVE InsertDesc(_, _, _, _)
InsertDesc(sorted, x, score, i) ==
    IF i > Len(sorted) THEN Append(sorted, x)
    ELSE IF SortKey(score, sorted[i]) >= SortKey(score, x)
         THEN InsertDesc(sorted, x, score, i + 1)
         ELSE SubSeq(sorted, 1, i - 1) \o <<x>> \o SubSeq(sorted, i, Len(sorted))

RECURSIVE SortedDescFrom(_, _, _, _)
SortedDescFrom(ps, score, i, acc) ==
    IF i > Len(ps) THEN acc
    ELSE SortedDescFrom(ps, score, i + 1, InsertDesc(acc, ps[i], score, 1))

SortedDesc(ps, score) == SortedDescFrom(ps, score, 1, <<>>)

\* the clock readings of the successive calculate_score calls: reads[k] is
\* what datetime.now() returns for the k-th post, given the time d[k] that
\* passed since the previous reading
RECURSIVE ClockRead(_, _, _)
ClockRead(start, d, k) == IF k <= 1 THEN start ELSE d[k] + ClockRead(start, d, k - 1)

\* relevance_score after the loop "for post in posts" ran over the first n
\* posts of ps
ScoresAfter(ps, n, start, d) ==
    [p \in DOMAIN relevance_score |->
        IF \E k \in 1..n : ps[k] = p
        THEN LET k == CHOOSE k \in 1..n : ps[k] = p
             IN <<CalculateScore(p, ps, ClockRead(start, d, k), sentiment[p])>>
        ELSE relevance_score[p]]

\* ---------------------------------------------------------------------
\* PostProcessor.process_posts and _enhance_posts_parallel
\* ---------------------------------------------------------------------
MaxConcurrent == 5            \* asyncio.Semaphore(5)
MaxPosts == 2                 \* longest list handed to process_posts
MaxBatch == 6                 \* longest list handed to _enhance_posts_parallel
MaxClockStep == 1             \* hours that may pass between two clock readings

SummaryOutcomes == {"summary", "exc"}
SentimentOutcomes == {"positive", "negative", "neutral", "exc"}

Positions == Indices(posts)
\* variant: the slice keeps one element too many
TruncateOffByOne(ps) == Take(ps, max_posts + 1)
\* Python slice seq[:max_posts]
Truncate(ps) == Take(ps, max_posts)

\* variant: the handler returns the whole list
FallbackWhole == Positions
\* line 83: return posts[:max_posts]
Fallback == Truncate(Positions)

\* variant: one permit too many
CanAcquireOffByOne == semaphore >= 0
\* asyncio.Semaphore.acquire does not block
CanAcquire == semaphore > 0

\* return <value> of process_posts
Return(value, via) ==
    /\ result' = value
    /\ path' = via
    /\ pc' = "done"

\* lines 50-68: everything process_posts does before its first await
ProcessPostsStart ==
    /\ UNCHANGED <<cvars, hvars, xvars>>
    /\ pc = "start"
    /\ UNCHANGED <<posts, max_posts, summary, sentiment, relevance_score,
                   enhanced_posts, ranked_posts, now>>
    /\ IF posts = <<>>
       THEN /\ Return(<<>>, "empty")
            /\ UNCHANGED <<unique_posts, filtered_posts, task, task_result, semaphore>>
       ELSE IF NormalizeRaises(Positions)
       THEN /\ Return(Fallback, "dedup_error")
            /\ UNCHANGED <<unique_posts, filtered_posts, task, task_result, semaphore>>
       ELSE IF FilterRaises(RemoveDuplicates(Positions))
       THEN /\ unique_posts' = RemoveDuplicates(Positions)
            /\ Return(Fallback, "filter_error")
            /\ UNCHANGED <<filtered_posts, task, task_result, semaphore>>
       ELSE /\ unique_posts' = RemoveDuplicates(Positions)
            /\ filtered_posts' = FilterQuality(unique_posts')
            /\ IF filtered_posts' = <<>>
               THEN /\ Return(<<>>, "no_quality")
                    /\ UNCHANGED <<task, task_result, semaphore>>
               ELSE /\ task' = [i \in 1..Len(filtered_posts') |-> "pending"]
                    /\ task_result' = [i \in 1..Len(filtered_posts') |-> <<>>]
                    /\ semaphore' = MaxConcurrent
                    /\ pc' = "enhancing"
                    /\ UNCHANGED <<result, path>>

\* bounded_enhance: "async with semaphore" is entered
AcquireSemaphore(i) ==
    /\ UNCHANGED <<cvars, hvars, xvars>>
    /\ pc = "enhancing"
    /\ task[i] = "pending"
    /\ CanAcquire
    /\ semaphore' = semaphore - 1
    /\ task' = [task EXCEPT ![i] = "running"]
    /\ UNCHANGED <<posts, max_posts, pc, summary, sentiment, relevance_score,
                   unique_posts, filtered_posts, task_result, enhanced_posts,
                   ranked_posts, result, path, now>>

\* lines 225-227: what post.summary is set to, given what gather returned
\* for summarize_post
HandledSummary(so) == IF so = "exc" THEN NoneVal ELSE so
\* variant: a failed summary also discards the sentiment
HandledSentimentOfFailedPost(se) == "neutral"
\* lines 229-231: what post.sentiment is set to, given what gather
\* returned for analyze_sentiment
HandledSentiment(se) == IF se = "exc" THEN "neutral" ELSE se

\* _enhance_single_post returns its post: both AI calls are over, an
\* exception of either was replaced by None / "neutral"
TaskReturns(i, so, se) ==
    /\ UNCHANGED <<cvars, hvars, xvars>>
    /\ pc = "enhancing"
    /\ task[i] = "running"
    /\ summary' = [summary EXCEPT ![filtered_posts[i]] = HandledSummary(so)]
    /\ sentiment' = [sentiment EXCEPT ![filtered_posts[i]] = HandledSentiment(se)]
    /\ task' = [task EXCEPT ![i] = "returned"]
    /\ task_result' = [task_result EXCEPT ![i] = <<filtered_posts[i]>>]
    /\ semaphore' = semaphore + 1
    /\ UNCHANGED <<posts, max_posts, pc, relevance_score, unique_posts,
                   filtered_posts, enhanced_posts, ranked_posts, result, path, now>>

\* an exception leaves _enhance_single_post (raised by its own handler);
\* gather(return_exceptions=True) keeps it as the task's result
TaskRaises(i) ==
    /\ UNCHANGED <<cvars, hvars, xvars>>
    /\ pc = "enhancing"
    /\ task[i] = "running"
    /\ task' = [task EXCEPT ![i] = "raised"]
    /\ task_result' = [task_result EXCEPT ![i] = <<>>]
    /\ semaphore' = semaphore + 1
    /\ UNCHANGED <<posts, max_posts, pc, summary, sentiment, relevance_score,
                   unique_posts, filtered_posts, enhanced_posts, ranked_posts,
                   result, path, now>>

AllTasksDone == \A i \in DOMAIN task : task[i] \in {"returned", "raised"}

\* variant: failed enhancements are filtered out instead of replaced
GatherResultDropFailed ==
    LET ok == SelectSeq(Indices(filtered_posts), LAMBDA i : task[i] # "raised")
    IN [k \in 1..Len(ok) |-> task_result[ok[k]][1]]
\* lines 194-203: the list built from what gather returned, by index
GatherResult ==
    [i \in 1..Len(filtered_posts) |->
        IF task[i] = "raised" THEN filtered_posts[i] ELSE task_result[i][1]]

\* _enhance_posts_parallel returns (lines 189-203)
EnhanceReturn ==
    /\ UNCHANGED <<cvars, hvars, xvars>>
    /\ pc = "enhancing"
    /\ AllTasksDone
    /\ enhanced_posts' = GatherResult
    /\ pc' = "enhanced"
    /\ UNCHANGED <<posts, max_posts, summary, sentiment, relevance_score,
                   unique_posts, filtered_posts, task, task_result, semaphore,
                   ranked_posts, result, path, now>>

\* lines 189-203 and 68-83: gather is over, the result list is built,
\* ranked and cut; an error while ranking leaves the scores already
\* assigned and returns the head of the original list
ProcessPostsResume ==
    /\ UNCHANGED <<cvars, hvars, xvars>>
    /\ pc = "enhancing"
    /\ AllTasksDone
    /\ enhanced_posts' = GatherResult
    /\ \E d \in [2..Len(GatherResult) -> 0..MaxClockStep] :
         LET raises_at == RankRaisesAt(GatherResult)
             scored == IF raises_at > 0 THEN raises_at - 1 ELSE Len(GatherResult)
         IN /\ relevance_score' = ScoresAfter(GatherResult, scored, now, d)
            /\ now' = ClockRead(now, d, Max(1, IF raises_at > 0 THEN raises_at ELSE scored))
            /\ IF raises_at > 0
               THEN /\ Return(Fallback, "rank_error")
                    /\ UNCHANGED ranked_posts
               ELSE /\ ranked_posts' = SortedDesc(GatherResult, relevance_score')
                    /\ Return(Truncate(ranked_posts'), "normal")
    /\ UNCHANGED <<posts, max_posts, summary, sentiment, unique_posts,
                   filtered_posts, task, task_result, semaphore>>

\* ---------------------------------------------------------------------
\* LRUCache (src/src/utils/cache.py).  Every method runs under self._lock
\* and does not await inside it, so each call is one step.
\* ---------------------------------------------------------------------
CacheMaxSize == 2             \* max_size given to the constructor
TTL == 1                      \* ttl_seconds given to the constructor
MaxTime == 2                  \* the clock stops here
MaxRequests == 1              \* get_cached_result calls that are counted
MaxQueryLen == 3              \* longest query string
MaxReads == 2                 \* hits counted per key between two sets
Values == {"X", "Y"}          \* cached responses
LruKeys == {<<"a">>, <<"b">>, <<"c">>}
QueryAlphabet == {"a", "A", " ", "?"}

\* OrderedDict and dict operations
KeysOf(dict) == {dict[i][1] : i \in 1..Len(dict)}
ValueOf(dict, key) == dict[CHOOSE i \in 1..Len(dict) : dict[i][1] = key][2]
DictDel(dict, key) == SelectSeq(dict, LAMBDA item : item[1] # key)
DictPut(dict, key, value) ==
    IF key \in KeysOf(dict)
    THEN [i \in 1..Len(dict) |-> IF dict[i][1] = key THEN <<key, value>> ELSE dict[i]]
    ELSE Append(dict, <<key, value>>)
FnDel(f, key) == [x \in DOMAIN f \ {key} |-> f[x]]
FnPut(f, key, v) == [x \in DOMAIN f \cup {key} |-> IF x = key THEN v ELSE f[x]]

\* LRUCache._is_expired
IsExpired(key) ==
    IF key \notin DOMAIN timestamps THEN TRUE
    ELSE time - timestamps[key] > ttl_seconds

\* variant: a hit leaves the entry where it is
MoveToEndSkipped(dict, key) == dict
\* value.pop(key) followed by cache[key] = value
MoveToEnd(dict, key) == Append(DictDel(dict, key), <<key, ValueOf(dict, key)>>)

\* variant: a hit renews the entry's timestamp
LruGetRenewing(key) ==
    IF key \notin KeysOf(cache)
    THEN [cache |-> cache, timestamps |-> timestamps, value |-> NoneVal]
    ELSE IF IsExpired(key)
    THEN [cache |-> DictDel(cache, key), timestamps |-> FnDel(timestamps, key),
          value |-> NoneVal]
    ELSE [cache |-> MoveToEnd(cache, key), timestamps |-> FnPut(timestamps, key, time),
          value |-> ValueOf(cache, key)]
\* LRUCache.get: the stores after the call and the value returned
LruGet(key) ==
    IF key \notin KeysOf(cache)
    THEN [cache |-> cache, timestamps |-> timestamps, value |-> NoneVal]
    ELSE IF IsExpired(key)
    THEN [cache |-> DictDel(cache, key), timestamps |-> FnDel(timestamps, key),
          value |-> NoneVal]
    ELSE [cache |-> MoveToEnd(cache, key), timestamps |-> timestamps,
          value |-> ValueOf(cache, key)]

\* while len(self.cache) > self.max_size: drop next(iter(self.cache))
RECURSIVE EvictOldest(_, _, _)
EvictOldest(dict, ts, size) ==
    IF Len(dict) > size
    THEN EvictOldest(Tail(dict), FnDel(ts, dict[1][1]), size)
    ELSE [cache |-> dict, timestamps |-> ts]

\* variant: eviction leaves the timestamp of the evicted key behind
LruSetKeepingTimestamps(key, value) ==
    [cache |-> EvictOldest(DictPut(DictDel(cache, key), key, value),
                           FnPut(timestamps, key, time), max_size).cache,
     timestamps |-> FnPut(timestamps, key, time)]
\* LRUCache.set: the stores after the call
LruSet(key, value) ==
    EvictOldest(DictPut(DictDel(cache, key), key, value),
                FnPut(timestamps, key, time), max_size)

\* history of uses: key becomes the most recent, keys no longer held go
Touched(order, key, held) ==
    SelectSeq(Append(SelectSeq(order, LAMBDA k : k # key), key),
              LAMBDA k : k \in held)
Retained(order, held) == SelectSeq(order, LAMBDA k : k \in held)

\* history of sets and hits: only held keys and a key just found expired
Kept(f, keys) == [k \in DOMAIN f \cap keys |-> f[k]]

NoSet == [valid |-> FALSE, words |-> <<>>]

Get(key) ==
    /\ UNCHANGED <<pvars, xvars>>
    /\ pc = "cache"
    /\ LET got == LruGet(key)
       IN /\ cache' = got.cache
          /\ timestamps' = got.timestamps
          /\ ret' = got.value
    /\ use_order' = IF ret' # NoneVal
                    THEN Touched(use_order, key, KeysOf(cache'))
                    ELSE Retained(use_order, KeysOf(cache'))
    /\ last_set' = NoSet
    /\ last_evicted' = {}
    /\ expired_get' = IF key \in KeysOf(cache) /\ ret' = NoneVal THEN {key} ELSE {}
    /\ reads' = Kept(IF ret' # NoneVal
                     THEN FnPut(reads, key, Min(reads[key] + 1, MaxReads))
                     ELSE reads, KeysOf(cache') \cup expired_get')
    /\ set_time' = Kept(set_time, KeysOf(cache') \cup expired_get')
    /\ UNCHANGED <<max_size, ttl_seconds, time, hit_count, miss_count>>

Set(key, value) ==
    /\ UNCHANGED <<pvars, xvars>>
    /\ pc = "cache"
    /\ LET stored == LruSet(key, value)
       IN /\ cache' = stored.cache
          /\ timestamps' = stored.timestamps
    /\ use_order' = Touched(use_order, key, KeysOf(cache'))
    /\ last_evicted' = (KeysOf(cache) \cup {key}) \ KeysOf(cache')
    /\ last_set' = NoSet
    /\ set_time' = Kept(FnPut(set_time, key, time), KeysOf(cache'))
    /\ reads' = Kept(FnPut(reads, key, 0), KeysOf(cache'))
    /\ expired_get' = {}
    /\ UNCHANGED <<max_size, ttl_seconds, time, hit_count, miss_count, ret>>

Delete(key) ==
    /\ UNCHANGED <<pvars, xvars>>
    /\ pc = "cache"
    /\ IF key \in KeysOf(cache)
       THEN /\ cache' = DictDel(cache, key)
            /\ timestamps' = FnDel(timestamps, key)
       ELSE UNCHANGED <<cache, timestamps>>
    /\ use_order' = Retained(use_order, KeysOf(cache'))
    /\ last_set' = NoSet
    /\ last_evicted' = {}
    /\ expired_get' = {}
    /\ set_time' = Kept(set_time, KeysOf(cache'))
    /\ reads' = Kept(reads, KeysOf(cache'))
    /\ UNCHANGED <<max_size, ttl_seconds, time, hit_count, miss_count, ret>>

Clear ==
    /\ UNCHANGED <<pvars, xvars>>
    /\ pc = "cache"
    /\ cache' = <<>>
    /\ timestamps' = <<>>
    /\ use_order' = <<>>
    /\ last_set' = NoSet
    /\ last_evicted' = {}
    /\ expired_get' = {}
    /\ set_time' = Kept(set_time, KeysOf(cache'))
    /\ reads' = Kept(reads, KeysOf(cache'))
    /\ UNCHANGED <<max_size, ttl_seconds, time, hit_count, miss_count, ret>>

CleanupExpired ==
    /\ UNCHANGED <<pvars, xvars>>
    /\ pc = "cache"
    /\ cache' = SelectSeq(cache, LAMBDA item : ~IsExpired(item[1]))
    /\ timestamps' = [k \in {x \in DOMAIN timestamps :
                               x \in KeysOf(cache) => ~IsExpired(x)} |-> timestamps[k]]
    /\ use_order' = Retained(use_order, KeysOf(cache'))
    /\ last_set' = NoSet
    /\ last_evicted' = {}
    /\ expired_get' = {}
    /\ set_time' = Kept(set_time, KeysOf(cache'))
    /\ reads' = Kept(reads, KeysOf(cache'))
    /\ UNCHANGED <<max_size, ttl_seconds, time, hit_count, miss_count, ret>>

\* time passes
Tick ==
    /\ UNCHANGED <<pvars, xvars>>
    /\ pc = "cache"
    /\ time < MaxTime
    /\ time' = time + 1
    /\ UNCHANGED <<cache, timestamps, max_size, ttl_seconds, hit_count,
                   miss_count, ret, last_set, use_order, last_evicted, hvars>>

\* ---------------------------------------------------------------------
\* QueryCache
\* ---------------------------------------------------------------------
\* QueryCache._normalize_query
NormalizeQuery(query) ==
    RemoveChar(RemoveChar(RemoveChar(
        StrJoin(StrSplit(StrStrip(StrLower(query)))), "?"), "!"), ".")

SeqsUpTo(S, n) == UNION {[1..k -> S] : k \in 0..n}
\* the query strings handed to the cache: each holds at least one letter
Queries == {q \in SeqsUpTo(QueryAlphabet, MaxQueryLen) : \E i \in 1..Len(q) : IsLetter(q[i])}

\* f"query:{normalized_query}" for every query
QueryKeyOf == [query \in Queries |-> <<"q","u","e","r","y",":">> \o NormalizeQuery(query)]
QueryKey(query) == QueryKeyOf[query]

\* history kept of a stored query: its words, in lower case and without
\* the characters ?!.
IsPunct(c) == c \in {"?", "!", "."}
QueryWords(query) == StrSplit(StrLower(SelectSeq(query, LAMBDA c : ~IsPunct(c))))
QueryWordsOf == [query \in Queries |-> QueryWords(query)]

GetCachedResult(query) ==
    /\ UNCHANGED <<pvars, xvars>>
    /\ pc = "cache"
    /\ hit_count + miss_count < MaxRequests
    /\ LET got == LruGet(QueryKey(query))
       IN /\ cache' = got.cache
          /\ timestamps' = got.timestamps
          /\ ret' = got.value
    /\ IF ret' # NoneVal
       THEN hit_count' = hit_count + 1 /\ UNCHANGED miss_count
       ELSE miss_count' = miss_count + 1 /\ UNCHANGED hit_count
    /\ use_order' = IF ret' # NoneVal
                    THEN Touched(use_order, QueryKey(query), KeysOf(cache'))
                    ELSE Retained(use_order, KeysOf(cache'))
    /\ last_set' = NoSet
    /\ last_evicted' = {}
    /\ UNCHANGED <<max_size, ttl_seconds, time, hvars>>

CacheResult(query, value) ==
    /\ UNCHANGED <<pvars, xvars>>
    /\ pc = "cache"
    /\ LET stored == LruSet(QueryKey(query), value)
       IN /\ cache' = stored.cache
          /\ timestamps' = stored.timestamps
    /\ use_order' = Touched(use_order, QueryKey(query), KeysOf(cache'))
    /\ last_evicted' = (KeysOf(cache) \cup {QueryKey(query)}) \ KeysOf(cache')
    /\ last_set' = [valid |-> TRUE, words |-> QueryWordsOf[query]]
    /\ UNCHANGED <<max_size, ttl_seconds, time, hit_count, miss_count, ret, hvars>>

\* ---------------------------------------------------------------------
\* RateLimiter (src/src/server.py).  is_allowed is synchronous: one step.
\* ---------------------------------------------------------------------
TestMaxRequests == 3          \* RateLimiter(max_requests=3, ...) of test_rate_limiting
TestWindowSeconds == 60       \* RateLimiter(..., window_seconds=60)
TickStep == 30                \* seconds by which the clock advances at once
MaxTicks == 3                 \* the clock advances at most this often
MaxCalls == 4                 \* is_allowed calls explored from an initial state
MaxKeys == 2                  \* distinct keys the limiter comes to track

EndpointAssist == <<"/", "a", "s", "s", "i", "s", "t">>
EndpointHealth == <<"/", "h", "e", "a", "l", "t", "h">>
EndpointInfo == <<"/", "i", "n", "f", "o">>
EndpointMetrics == <<"/", "m", "e", "t", "r", "i", "c", "s">>
EndpointDocs == <<"/", "d", "o", "c", "s">>
\* endpoint=None and endpoint="" are both false in "if endpoint"
NoEndpoint == <<>>
\* self.endpoint_limits
endpoint_limits ==
    (EndpointAssist :> [max_requests |-> 30, window |-> 60]) @@
    (EndpointHealth :> [max_requests |-> 120, window |-> 60]) @@
    (EndpointInfo :> [max_requests |-> 60, window |-> 60]) @@
    (EndpointMetrics :> [max_requests |-> 10, window |-> 60])

RateClients == {<<"a">>, <<"b">>}
RateEndpoints == {EndpointAssist, EndpointHealth, EndpointInfo, EndpointMetrics,
                  EndpointDocs, NoEndpoint}
\* the calls made: client a on every endpoint, client b on /metrics and /assist
CallPairs == {<<c, e>> \in RateClients \X RateEndpoints :
                 c = <<"a">> \/ e \in {EndpointMetrics, EndpointAssist}}

\* the limits is_allowed applies to an endpoint
LimitsFor(endpoint) ==
    IF endpoint # NoEndpoint /\ endpoint \in DOMAIN endpoint_limits
    THEN endpoint_limits[endpoint]
    ELSE [max_requests |-> rl_max_requests, window |-> rl_window_seconds]

\* key = f"{client_id}:{endpoint}" if endpoint else client_id
RateKey(client_id, endpoint) ==
    IF endpoint # NoEndpoint THEN client_id \o <<":">> \o endpoint ELSE client_id

\* while client_requests and client_requests[0] < now - window_seconds: popleft()
RECURSIVE PopOld(_, _)
PopOld(client_requests, cutoff) ==
    IF client_requests # <<>> /\ Head(client_requests) < cutoff
    THEN PopOld(Tail(client_requests), cutoff)
    ELSE client_requests

\* variant: a request is admitted with max_requests already recorded
UnderLimitInclusive(client_requests, max_requests) == Len(client_requests) <= max_requests
\* if len(client_requests) < max_requests
UnderLimit(client_requests, max_requests) == Len(client_requests) < max_requests

\* self.requests[key] of a defaultdict(deque)
RequestsOf(key) == IF key \in DOMAIN requests THEN requests[key] ELSE <<>>

\* RateLimiter.is_allowed: the deque of the key after the call, and the result
IsAllowedResult(client_id, endpoint) ==
    LET limits == LimitsFor(endpoint)
        client_requests == PopOld(RequestsOf(RateKey(client_id, endpoint)),
                                  wall_clock - limits.window)
    IN IF UnderLimit(client_requests, limits.max_requests)
       THEN [requests |-> Append(client_requests, wall_clock), allowed |-> TRUE]
       ELSE [requests |-> client_requests, allowed |-> FALSE]

\* history of a pair: its admission times, oldest first
AdmittedOf(pair) == IF pair \in DOMAIN admitted THEN admitted[pair] ELSE <<>>

IsAllowed(client_id, endpoint) ==
    /\ pc = "rate_limiter"
    /\ rl_calls < MaxCalls
    /\ Cardinality(DOMAIN requests \cup {RateKey(client_id, endpoint)}) <= MaxKeys
    /\ rl_calls' = rl_calls + 1
    /\ LET r == IsAllowedResult(client_id, endpoint)
           key == RateKey(client_id, endpoint)
           pair == <<client_id, endpoint>>
       IN /\ requests' = FnPut(requests, key, r.requests)
          /\ rl_last' = [client_id |-> client_id, endpoint |-> endpoint,
                         allowed |-> r.allowed]
          /\ admitted' = IF r.allowed
                         THEN FnPut(admitted, pair, Append(AdmittedOf(pair), wall_clock))
                         ELSE admitted
          /\ rejected' = IF r.allowed THEN rejected ELSE rejected \cup {pair}
    /\ UNCHANGED <<rl_max_requests, rl_window_seconds, tvars, not_rvars>>

\* time passes; admissions no later call can see in its window leave the history
RateTick ==
    /\ pc = "rate_limiter"
    /\ ticks < MaxTicks
    /\ wall_clock' = wall_clock + TickStep
    /\ ticks' = ticks + 1
    /\ admitted' = [pair \in DOMAIN admitted |->
                       SelectSeq(admitted[pair],
                                 LAMBDA t : t >= wall_clock' - LimitsFor(pair[2]).window)]
    /\ UNCHANGED <<requests, rl_max_requests, rl_window_seconds, rl_last, rl_calls,
                   rejected, not_rvars>>

NoCall == [client_id |-> <<>>, endpoint |-> NoEndpoint, allowed |-> FALSE]

\* ---------------------------------------------------------------------
\* CircuitBreaker (src/src/utils/security.py).  call and func are
\* synchronous: one call is one step.
\* ---------------------------------------------------------------------
FailureThreshold == 5         \* CircuitBreaker(failure_threshold=5, ...)
RecoveryTimeout == 60         \* CircuitBreaker(..., recovery_timeout=60)
MaxBreakerTicks == 5          \* the clock advances at most this often
FuncOutcomes == {"returns", "raises"}

\* CircuitBreaker._should_attempt_reset
ShouldAttemptReset ==
    IF last_failure_time = <<>> THEN TRUE
    ELSE wall_clock - last_failure_time[1] >= recovery_timeout

\* variant: a success leaves the failure count as it is
OnSuccessKeepsCount == [failure_count |-> failure_count, state |-> "CLOSED"]
\* CircuitBreaker._on_success
OnSuccess == [failure_count |-> 0, state |-> "CLOSED"]

\* variant: the circuit opens one failure late
ReachedThresholdLate(count) == count > failure_threshold
\* if self.failure_count >= self.failure_threshold
ReachedThreshold(count) == count >= failure_threshold

\* CircuitBreaker._on_failure, entered in state s
OnFailure(s) ==
    [failure_count |-> failure_count + 1,
     last_failure_time |-> <<wall_clock>>,
     state |-> IF ReachedThreshold(failure_count + 1) THEN "OPEN" ELSE s]

NoBreakerCall == [was |-> "CLOSED", executed |-> FALSE, raised |-> FALSE]

\* CircuitBreaker.call(func) where func returns or raises
Call(outcome) ==
    /\ pc = "breaker"
    /\ IF cb_state = "OPEN" /\ ~ShouldAttemptReset
       THEN \* raise Exception("Circuit breaker is OPEN")
            /\ cb_last' = [was |-> cb_state, executed |-> FALSE, raised |-> TRUE]
            /\ UNCHANGED <<cb_state, failure_count, last_failure_time, streak,
                           trial_failed>>
       ELSE LET entered == IF cb_state = "OPEN" THEN "HALF_OPEN" ELSE cb_state
            IN IF outcome = "returns"
               THEN /\ failure_count' = OnSuccess.failure_count
                    /\ cb_state' = OnSuccess.state
                    /\ cb_last' = [was |-> cb_state, executed |-> TRUE, raised |-> FALSE]
                    /\ streak' = 0
                    /\ trial_failed' = <<>>
                    /\ UNCHANGED last_failure_time
               ELSE /\ failure_count' = OnFailure(entered).failure_count
                    /\ last_failure_time' = OnFailure(entered).last_failure_time
                    /\ cb_state' = OnFailure(entered).state
                    /\ cb_last' = [was |-> cb_state, executed |-> TRUE, raised |-> TRUE]
                    /\ streak' = streak + 1
                    /\ trial_failed' = IF entered = "HALF_OPEN" THEN <<wall_clock>>
                                       ELSE trial_failed
    /\ UNCHANGED <<failure_threshold, recovery_timeout, tvars, not_bvars>>

\* time passes
BreakerTick ==
    /\ pc = "breaker"
    /\ ticks < MaxBreakerTicks
    /\ wall_clock' = wall_clock + TickStep
    /\ ticks' = ticks + 1
    /\ UNCHANGED <<bvars, not_bvars>>

\* ---------------------------------------------------------------------
\* InputValidator.validate_query (src/src/utils/security.py)
\* ---------------------------------------------------------------------
MaxQueryChars == 1000         \* if len(query) > 1000
MinQueryChars == 3            \* if len(query.strip()) < 3
MaxFragments == 3             \* a query is made of at most this many fragments

\* the pattern p occurs in s at index i
At(s, i, p) == i >= 1 /\ i + Len(p) - 1 <= Len(s) /\ SubSeq(s, i, i + Len(p) - 1) = p
\* re.search of a literal
HasSub(s, p) == \E i \in 1..Len(s) : At(s, i, p)
\* re.search of  w1\s*w2  (least = 0) or  w1\s+w2  (least = 1)
HasSpaced(s, w1, least, w2) ==
    \E i \in 1..Len(s) :
        /\ At(s, i, w1)
        /\ \E n \in least..Len(s) :
              /\ \A x \in (i + Len(w1))..(i + Len(w1) + n - 1) :
                    x <= Len(s) /\ IsSpace(s[x])
              /\ At(s, i + Len(w1) + n, w2)

\* <script[^>]*>.*?</script>
ScriptTag(s) ==
    \E i \in 1..Len(s) : \E j \in (i + 7)..Len(s) : \E k \in (j + 1)..Len(s) :
        /\ At(s, i, <<"<", "s", "c", "r", "i", "p", "t">>)
        /\ s[j] = ">"
        /\ \A x \in (i + 7)..(j - 1) : s[x] # ">"
        /\ At(s, k, <<"<", "/", "s", "c", "r", "i", "p", "t", ">">>)
        /\ \A x \in (j + 1)..(k - 1) : s[x] # "\n"
\* on\w+\s*=
EventHandler(s) ==
    \E i \in 1..Len(s) : \E a \in (i + 2)..Len(s) : \E b \in (a + 1)..Len(s) :
        /\ At(s, i, <<"o", "n">>)
        /\ \A x \in (i + 2)..a : IsWordChar(s[x])
        /\ \A x \in (a + 1)..(b - 1) : IsSpace(s[x])
        /\ s[b] = "="
\* __\w+__
Dunder(s) ==
    \E i \in 1..Len(s) : \E k \in (i + 3)..Len(s) :
        /\ At(s, i, <<"_", "_">>)
        /\ At(s, k, <<"_", "_">>)
        /\ \A x \in (i + 2)..(k - 1) : IsWordChar(s[x])
\* --\s*$
SqlLineComment(s) ==
    \E i \in 1..Len(s) :
        /\ At(s, i, <<"-", "-">>)
        /\ \A x \in (i + 2)..Len(s) : IsSpace(s[x])
\* /\*.*?\*/
SqlBlockComment(s) ==
    \E i \in 1..Len(s) : \E k \in (i + 2)..Len(s) :
        /\ At(s, i, <<"/", "*">>)
        /\ At(s, k, <<"*", "/">>)
        /\ \A x \in (i + 2)..(k - 1) : s[x] # "\n"

\* some pattern of DANGEROUS_PATTERNS is found in s
DangerousPatterns(s) ==
    \/ ScriptTag(s)
    \/ HasSub(s, <<"j", "a", "v", "a", "s", "c", "r", "i", "p", "t", ":">>)
    \/ EventHandler(s)
    \/ HasSpaced(s, <<"e", "v", "a", "l">>, 0, <<"(">>)
    \/ HasSpaced(s, <<"e", "x", "e", "c">>, 0, <<"(">>)
    \/ HasSpaced(s, <<"i", "m", "p", "o", "r", "t">>, 1, <<>>)
    \/ Dunder(s)
    \/ HasSub(s, <<".", ".", "/">>)
    \* [;&|`$] : the backquote is not a character of the model's strings
    \/ \E i \in 1..Len(s) : s[i] \in {";", "&", "|", "$"}
\* some pattern of SQL_INJECTION_PATTERNS is found in s
SqlInjectionPatterns(s) ==
    \/ HasSpaced(s, <<"u", "n", "i", "o", "n">>, 1, <<"s", "e", "l", "e", "c", "t">>)
    \/ HasSpaced(s, <<"d", "r", "o", "p">>, 1, <<"t", "a", "b", "l", "e">>)
    \/ HasSpaced(s, <<"d", "e", "l", "e", "t", "e">>, 1, <<"f", "r", "o", "m">>)
    \/ HasSpaced(s, <<"i", "n", "s", "e", "r", "t">>, 1, <<"i", "n", "t", "o">>)
    \/ HasSpaced(s, <<"u", "p", "d", "a", "t", "e">>, 1, <<"s", "e", "t">>)
    \/ SqlLineComment(s)
    \/ SqlBlockComment(s)
\* sum(1 for c in query if not c.isalnum() and not c.isspace())
SpecialCharCount(s) ==
    Cardinality({i \in 1..Len(s) : ~IsLetter(s[i]) /\ s[i] \notin Digits /\ ~IsSpace(s[i])})

\* InputValidator.validate_query
ValidateQuery(query) ==
    IF query = <<>>
    THEN <<FALSE, "Query must be a non-empty string">>
    ELSE IF Len(query) > MaxQueryChars
    THEN <<FALSE, "Query too long (max 1000 characters)">>
    ELSE IF Len(StrStrip(query)) < MinQueryChars
    THEN <<FALSE, "Query too short (min 3 characters)">>
    ELSE IF DangerousPatterns(StrLower(query))
    THEN <<FALSE, "Query contains potentially dangerous content">>
    ELSE IF SqlInjectionPatterns(StrLower(query))
    THEN <<FALSE, "Query contains potentially malicious SQL">>
    ELSE IF 10 * SpecialCharCount(query) > 3 * Len(query)
    THEN <<FALSE, "Query contains too many special characters">>
    ELSE <<TRUE, "">>

\* pieces of text the queries are made of
Fragments == {
    <<"<", "s", "c", "r", "i", "p", "t", ">">>,
    <<"<", "/", "s", "c", "r", "i", "p", "t", ">">>,
    <<"<", "S", "C", "R", "I", "P", "T", ">">>,
    <<"w", "h", "a", "t", " ", "i", "s", " ", "a", " ">>,
    <<" ", "t", "a", "g", " ", "i", "n", " ", "h", "t", "m", "l">>,
    <<"a", "l", "e", "r", "t">>,
    <<"\n">>,
    <<"d", "r", "o", "p", " ", " ", "t", "a", "b", "l", "e", " ", "u", "s", "e", "r", "s">>,
    <<"a", "b">> }
RECURSIVE Concat(_)
Concat(parts) == IF parts = <<>> THEN <<>> ELSE Head(parts) \o Concat(Tail(parts))
ValidatorQueries ==
    {Concat(parts) : parts \in SeqsUpTo(Fragments, MaxFragments)}
        \cup {Rep("a", MaxQueryChars + 1)}

\* one call of validate_query
ValidateQueryCall ==
    /\ pc = "validator"
    /\ v_result = <<>>
    /\ v_result' = ValidateQuery(v_query)
    /\ UNCHANGED <<v_query, not_ivars>>

\* ---------------------------------------------------------------------
\* SentientEchoAgent.__init__ (src/src/sentient_echo_agent.py), statement
\* by statement, after the import of src/src/config.py.
\* ---------------------------------------------------------------------
\* settings declared with Field(...): no default
RequiredSettings == {"fireworks_api_key", "fireworks_model_id", "serper_api_key",
                     "jina_ai_api_key"}
AgentNames == {"SentientEcho", "Echo", "Agent"}

\* positional parameters, after self, of the constructors the agent calls
InitParams ==
    [AIProvider |-> <<"api_key", "model_id">>,
     RedditProvider |-> <<"max_results">>,
     TwitterProvider |-> <<"max_results", "serper_api_key">>,
     JinaProvider |-> <<"api_key">>,
     QueryProcessor |-> <<"ai_provider">>,
     PostProcessor |-> <<"ai_provider">>]
\* the arguments the agent passes: positional count and keyword names
InitArgs ==
    [AIProvider |-> [positional |-> 0, keywords |-> {"api_key", "model_id"}],
     RedditProvider |-> [positional |-> 0, keywords |-> {"max_results"}],
     TwitterProvider |-> [positional |-> 0, keywords |-> {"max_results", "serper_api_key"}],
     JinaProvider |-> [positional |-> 0, keywords |-> {"api_key"}],
     QueryProcessor |-> [positional |-> 1, keywords |-> {}],
     PostProcessor |-> [positional |-> 2, keywords |-> {}]]
\* Python binds the arguments of a call to the parameters, or raises TypeError
Binds(class) ==
    LET params == InitParams[class]
        args == InitArgs[class]
    IN /\ args.positional <= Len(params)
       /\ args.keywords \subseteq Range(params)
       /\ \A i \in 1..args.positional : params[i] \notin args.keywords

\* one constructor call of __init__ that stores its result in an attribute
Construct(at, class, attribute, next) ==
    /\ pc = "agent_init"
    /\ a_pc = at
    /\ IF Binds(class)
       THEN /\ agent' = [agent EXCEPT ![attribute] = class]
            /\ a_pc' = next
            /\ UNCHANGED a_error
       ELSE /\ a_pc' = "raised"
            /\ a_error' = "TypeError"
            /\ UNCHANGED agent
    /\ UNCHANGED <<env, name_arg, not_avars>>

\* settings = Settings() at the import of config.py
ImportConfig ==
    /\ pc = "agent_init"
    /\ a_pc = "import"
    /\ IF \A k \in RequiredSettings : env[k]
       THEN a_pc' = "call" /\ UNCHANGED a_error
       ELSE a_pc' = "raised" /\ a_error' = "ValidationError"
    /\ UNCHANGED <<env, name_arg, agent, not_avars>>

\* super().__init__(name); self.settings = get_settings()
SuperInit ==
    /\ pc = "agent_init"
    /\ a_pc = "call"
    /\ agent' = [agent EXCEPT !["name"] = name_arg, !["settings"] = "Settings"]
    /\ a_pc' = "ai_provider"
    /\ UNCHANGED <<env, name_arg, a_error, not_avars>>

NewAIProvider == Construct("ai_provider", "AIProvider", "ai_provider", "reddit_provider")
NewRedditProvider ==
    Construct("reddit_provider", "RedditProvider", "reddit_provider", "twitter_provider")
NewTwitterProvider ==
    Construct("twitter_provider", "TwitterProvider", "twitter_provider", "jina_provider")
NewJinaProvider ==
    Construct("jina_provider", "JinaProvider", "jina_provider", "query_processor")
NewQueryProcessor ==
    Construct("query_processor", "QueryProcessor", "query_processor", "post_processor")
\* the last statement that can raise: after it __init__ returns
NewPostProcessor ==
    Construct("post_processor", "PostProcessor", "post_processor", "returned")

AgentAttributes == {"name", "settings", "ai_provider", "reddit_provider",
                    "twitter_provider", "jina_provider", "query_processor",
                    "post_processor"}

\* ---------------------------------------------------------------------
\* Initial states and specifications
\* ---------------------------------------------------------------------
\* a cache right after LRUCache.__init__ / QueryCache.__init__
NewCache ==
    /\ cache = <<>>
    /\ timestamps = <<>>
    /\ max_size = CacheMaxSize
    /\ ttl_seconds = TTL
    /\ time = 0
    /\ hit_count = 0
    /\ miss_count = 0
    /\ ret = NoneVal
    /\ last_set = NoSet
    /\ use_order = <<>>
    /\ last_evicted = {}
    /\ set_time = <<>>
    /\ reads = <<>>
    /\ expired_get = {}

\* the wall_clock at the start
NewClock ==
    /\ wall_clock = 0
    /\ ticks = 0

\* RateLimiter(max_requests=3, window_seconds=60)
NewRateLimiter ==
    /\ requests = <<>>
    /\ rl_max_requests = TestMaxRequests
    /\ rl_window_seconds = TestWindowSeconds
    /\ rl_last = NoCall
    /\ rl_calls = 0
    /\ admitted = <<>>
    /\ rejected = {}

\* the same limiter after client a was admitted on one endpoint, at the
\* start of the clock, one time less than the endpoint's maximum
UsedRateLimiter ==
    /\ rl_max_requests = TestMaxRequests
    /\ rl_window_seconds = TestWindowSeconds
    /\ rl_last = NoCall
    /\ rl_calls = 0
    /\ rejected = {}
    /\ \E endpoint \in RateEndpoints :
          LET earlier == [i \in 1..(LimitsFor(endpoint).max_requests - 1) |-> 0]
          IN /\ requests = (RateKey(<<"a">>, endpoint) :> earlier)
             /\ admitted = (<<(<<"a">>), endpoint>> :> earlier)

\* CircuitBreaker(failure_threshold=5, recovery_timeout=60)
NewBreaker ==
    /\ cb_state = "CLOSED"
    /\ failure_count = 0
    /\ last_failure_time = <<>>
    /\ failure_threshold = FailureThreshold
    /\ recovery_timeout = RecoveryTimeout
    /\ cb_last = NoBreakerCall
    /\ streak = 0
    /\ trial_failed = <<>>

\* no validate_query call has been made
NoValidation ==
    /\ v_query = <<>>
    /\ v_result = <<>>

\* no agent is being constructed
NoAgent ==
    /\ env = [k \in RequiredSettings |-> TRUE]
    /\ name_arg = "SentientEcho"
    /\ a_pc = "none"
    /\ agent = [x \in AgentAttributes |-> NoneVal]
    /\ a_error = ""

\* ---------------------------------------------------------------------
\* SentientEchoAgent.assist (src/src/sentient_echo_agent.py)
\* ---------------------------------------------------------------------
MaxFound == 1                 \* most posts one search returns
MaxCachedEvents == 1          \* most events stored in a cached result

\* what a provider can hand back as a Post: with or without a summary, or
\* built from a payload without a date or without a text
PostKinds == {"summarised", "plain", "no_date", "no_content"}
\* post.to_dict(): created_at.isoformat() needs a datetime
ToDictRaises(post) == post = "no_date"
\* what asyncio.gather(..., return_exceptions=True) returns for one search
SearchResults ==
    {[raised |-> TRUE, found |-> <<>>]}
        \cup {[raised |-> FALSE, found |-> ps] : ps \in UNION {[1..k -> PostKinds] : k \in 0..MaxFound}}
\* what get_cached_query_result can return besides None
CachedEventTypes == {"text_block", "json", "test"}
CachedResults ==
    {[events |-> ev, final_response |-> fr] :
        ev \in UNION {[1..k -> CachedEventTypes] : k \in 0..MaxCachedEvents},
        fr \in {"", "text"}}

\* the calls made on the response handler and on its text stream
EmitTextBlock(event_type) == <<"text_block", event_type>>
EmitJson(event_type) == <<"json", event_type>>
EmitChunk(what) == <<"chunk", what>>
StreamComplete == <<"stream", "complete">>
EmitError == <<"error", "PROCESSING_ERROR">>
HandlerComplete == <<"handler", "complete">>

\* the loop over cached_result.get("events", [])
ReplayEvent(type) ==
    IF type = "text_block" THEN <<EmitTextBlock("cached")>>
    ELSE IF type = "json" THEN <<EmitJson("cached")>>
    ELSE <<>>
RECURSIVE ReplayEvents(_)
ReplayEvents(evs) ==
    IF evs = <<>> THEN <<>> ELSE ReplayEvent(Head(evs)) \o ReplayEvents(Tail(evs))

\* the loop over enumerate(search_results); i counts from 1 here
IsRedditResult(pq, i) == pq.search_reddit /\ i = 1
IsTwitterResult(pq, i) == ~IsRedditResult(pq, i) /\ pq.search_twitter
RedditPostsOf(pq, rs) ==
    IF \E i \in DOMAIN rs : ~rs[i].raised /\ IsRedditResult(pq, i)
    THEN rs[1].found ELSE <<>>
TwitterPostsOf(pq, rs) ==
    LET tw == {i \in DOMAIN rs : ~rs[i].raised /\ IsTwitterResult(pq, i)}
    IN IF tw = {} THEN <<>> ELSE rs[CHOOSE i \in tw : \A j \in tw : j <= i].found
RECURSIVE AllPostsFrom(_, _, _)
AllPostsFrom(pq, rs, i) ==
    IF i > Len(rs) THEN <<>>
    ELSE (IF ~rs[i].raised /\ (IsRedditResult(pq, i) \/ IsTwitterResult(pq, i))
          THEN rs[i].found ELSE <<>>) \o AllPostsFrom(pq, rs, i + 1)
AllPostsOf(pq, rs) == AllPostsFrom(pq, rs, 1)

\* the chunks of one post of the final response, and whether formatting
\* the post raised: post.content[:500] needs a string
PostChunks(post, summaries) ==
    <<EmitChunk("title"), EmitChunk("author"), EmitChunk("posted"),
      EmitChunk("engagement")>>
    \o (IF post = "no_content" THEN <<>>
        ELSE <<EmitChunk("content")>>
             \o (IF summaries /\ post = "summarised"
                 THEN <<EmitChunk("summary")>> ELSE <<>>)
             \o <<EmitChunk("link")>>)
RECURSIVE StreamPosts(_, _)
StreamPosts(ps, summaries) ==
    IF ps = <<>> THEN [emitted |-> <<>>, raised |-> FALSE]
    ELSE IF Head(ps) = "no_content"
         THEN [emitted |-> PostChunks(Head(ps), summaries), raised |-> TRUE]
         ELSE LET rest == StreamPosts(Tail(ps), summaries)
              IN [emitted |-> PostChunks(Head(ps), summaries) \o rest.emitted,
                  raised |-> rest.raised]

\* what process_posts(all_posts, query, max_posts=10) can return: at most
\* ten of the posts it was given, in any order, summaries added or not
CountOf(s, kinds) == Cardinality({i \in DOMAIN s : s[i] \in kinds})
ProcessedFrom(all) ==
    {ps \in UNION {[1..k -> PostKinds] : k \in 0..Min(10, Len(all))} :
        /\ CountOf(ps, {"no_date"}) <= CountOf(all, {"no_date"})
        /\ CountOf(ps, {"no_content"}) <= CountOf(all, {"no_content"})
        /\ CountOf(ps, {"summarised", "plain"}) <= CountOf(all, {"summarised", "plain"})}

\* the except clause of assist: emit_error, then complete
ErrorEventsWithoutComplete == <<EmitError>>
ErrorEvents == <<EmitError, HandlerComplete>>

\* number of emit_json calls among the events
JsonEmits(evs) == Cardinality({i \in DOMAIN evs : evs[i][1] = "json"})
\* getattr(final_response_stream, 'content', ''): the default, or what the
\* stream object of the framework keeps under that name
StreamContents == {"", "text"}
\* cache_data of lines 266-271
CacheData(content) == [events |-> <<>>, final_response |-> content]
\* variant: the cached result is never used
IsHitNever(found) == FALSE
\* if cached_result: a dict with keys is true, None is not
IsHit(found) == found # <<>>

\* cached_result = await get_cached_query_result(query.prompt); the lookup
\* lower-cases the prompt, which raises unless the prompt is a string; an
\* entry that outlived its TTL is deleted and the lookup returns None
AssistCheckCache ==
    /\ as_pc = "called"
    /\ IF ~prompt_is_str
       THEN /\ as_pc' = "except"
            /\ UNCHANGED <<cached_result, query_cache>>
       ELSE \E found \in {<<>>, query_cache} :
                /\ cached_result' = found
                /\ query_cache' = found
                /\ as_pc' = IF IsHit(found) THEN "cache_hit" ELSE "analyze"
    /\ UNCHANGED <<prompt_is_str, enable_summaries, processed_query,
                   search_results, reddit_posts, twitter_posts, all_posts,
                   processed_posts, events>>
    /\ UNCHANGED <<response_cached, calls, stored_run, later, not_svars>>

\* the branch if cached_result: replay, complete, return
AssistReplayCached ==
    /\ as_pc = "cache_hit"
    /\ events' = events
                 \o <<EmitTextBlock("CACHE_HIT")>>
                 \o ReplayEvents(cached_result[1].events)
                 \o (IF cached_result[1].final_response # ""
                     THEN <<EmitChunk("final_response"), StreamComplete>>
                     ELSE <<>>)
                 \o <<HandlerComplete>>
    /\ as_pc' = "returned"
    /\ UNCHANGED <<prompt_is_str, enable_summaries, cached_result,
                   processed_query, search_results, reddit_posts,
                   twitter_posts, all_posts, processed_posts>>
    /\ UNCHANGED <<response_cached, query_cache, calls, stored_run, later, not_svars>>

\* step 1: QUERY_ANALYSIS, process_query, QUERY_INTENT
AssistAnalyze ==
    /\ as_pc = "analyze"
    /\ \E sr \in BOOLEAN, st \in BOOLEAN :
            processed_query' = [search_reddit |-> sr, search_twitter |-> st]
    /\ events' = events \o <<EmitTextBlock("QUERY_ANALYSIS"), EmitJson("QUERY_INTENT")>>
    /\ calls' = calls \cup {"query_processor", "ai_provider"}
    /\ as_pc' = "search"
    /\ UNCHANGED <<prompt_is_str, enable_summaries, cached_result,
                   search_results, reddit_posts, twitter_posts, all_posts,
                   processed_posts>>
    /\ UNCHANGED <<response_cached, query_cache, stored_run, later, not_svars>>

\* step 2: SEARCH, the gathered searches, the loop over their results and
\* the branch if not all_posts
AssistSearch ==
    /\ as_pc = "search"
    /\ LET tasks == (IF processed_query.search_reddit THEN 1 ELSE 0)
                    + (IF processed_query.search_twitter THEN 1 ELSE 0)
       IN \E rs \in [1..tasks -> SearchResults] :
            /\ search_results' = rs
            /\ reddit_posts' = RedditPostsOf(processed_query, rs)
            /\ twitter_posts' = TwitterPostsOf(processed_query, rs)
            /\ all_posts' = AllPostsOf(processed_query, rs)
    /\ calls' = calls \cup (IF processed_query.search_reddit THEN {"reddit_provider"} ELSE {})
                      \cup (IF processed_query.search_twitter THEN {"twitter_provider"} ELSE {})
    /\ IF all_posts' = <<>>
       THEN /\ events' = events \o <<EmitTextBlock("SEARCH"), EmitTextBlock("NO_RESULTS"),
                                     HandlerComplete>>
            /\ as_pc' = "returned"
       ELSE /\ events' = events \o <<EmitTextBlock("SEARCH")>>
            /\ as_pc' = "process"
    /\ UNCHANGED <<prompt_is_str, enable_summaries, cached_result,
                   processed_query, processed_posts>>
    /\ UNCHANGED <<response_cached, query_cache, stored_run, later, not_svars>>

\* step 3: PROCESSING and process_posts
AssistProcess ==
    /\ as_pc = "process"
    /\ processed_posts' \in ProcessedFrom(all_posts)
    /\ events' = events \o <<EmitTextBlock("PROCESSING")>>
    /\ calls' = calls \cup {"post_processor", "ai_provider"}
    /\ as_pc' = "emit_results"
    /\ UNCHANGED <<prompt_is_str, enable_summaries, cached_result,
                   processed_query, search_results, reddit_posts,
                   twitter_posts, all_posts>>
    /\ UNCHANGED <<response_cached, query_cache, stored_run, later, not_svars>>

\* step 4: REDDIT_POSTS and TWITTER_POSTS; the argument of each emit_json
\* is built, to_dict included, before the call
AssistEmitResults ==
    /\ as_pc = "emit_results"
    /\ LET reddit_raises == \E i \in DOMAIN Take(reddit_posts, 5) : ToDictRaises(reddit_posts[i])
           twitter_raises == \E i \in DOMAIN Take(twitter_posts, 5) : ToDictRaises(twitter_posts[i])
           reddit_emit == IF reddit_posts # <<>> /\ ~reddit_raises
                          THEN <<EmitJson("REDDIT_POSTS")>> ELSE <<>>
       IN IF reddit_posts # <<>> /\ reddit_raises
          THEN /\ as_pc' = "except"
               /\ UNCHANGED events
          ELSE IF twitter_posts # <<>> /\ twitter_raises
          THEN /\ as_pc' = "except"
               /\ events' = events \o reddit_emit
          ELSE /\ as_pc' = "stream"
               /\ events' = events \o reddit_emit
                            \o (IF twitter_posts # <<>>
                                THEN <<EmitJson("TWITTER_POSTS")>> ELSE <<>>)
    /\ UNCHANGED <<prompt_is_str, enable_summaries, cached_result,
                   processed_query, search_results, reddit_posts,
                   twitter_posts, all_posts, processed_posts>>
    /\ UNCHANGED <<response_cached, query_cache, calls, stored_run, later, not_svars>>

\* step 5: the FINAL_RESPONSE stream over processed_posts[:5], then
\* final_response_stream.complete() and response_handler.complete()
AssistStream ==
    /\ as_pc = "stream"
    /\ LET streamed == StreamPosts(Take(processed_posts, 5), enable_summaries)
       IN IF streamed.raised
          THEN /\ events' = events \o <<EmitChunk("found")>> \o streamed.emitted
               /\ as_pc' = "except"
          ELSE /\ events' = events \o <<EmitChunk("found")>> \o streamed.emitted
                            \o <<StreamComplete, HandlerComplete>>
               /\ as_pc' = "cache_result"
    /\ UNCHANGED <<prompt_is_str, enable_summaries, cached_result,
                   processed_query, search_results, reddit_posts,
                   twitter_posts, all_posts, processed_posts>>
    /\ UNCHANGED <<response_cached, query_cache, calls, stored_run, later, not_svars>>

\* the inner try: cache_query_result, whose failure is logged and dropped
AssistCacheResult(outcome) ==
    /\ as_pc = "cache_result"
    /\ as_pc' = "returned"
    /\ response_cached' = (outcome = "stored")
    /\ IF outcome = "stored"
       THEN /\ \E content \in StreamContents : query_cache' = <<CacheData(content)>>
            /\ stored_run' = <<JsonEmits(events)>>
       ELSE UNCHANGED <<query_cache, stored_run>>
    /\ UNCHANGED <<prompt_is_str, enable_summaries, cached_result, processed_query,
                   search_results, reddit_posts, twitter_posts, all_posts,
                   processed_posts, events, calls, later>>
    /\ UNCHANGED not_svars

\* assist is called once more with the same prompt after a run that stored
\* its response
AssistAgain ==
    /\ as_pc = "returned"
    /\ response_cached
    /\ ~later
    /\ later' = TRUE
    /\ as_pc' = "called"
    /\ cached_result' = <<>>
    /\ processed_query' = [search_reddit |-> FALSE, search_twitter |-> FALSE]
    /\ search_results' = <<>>
    /\ reddit_posts' = <<>>
    /\ twitter_posts' = <<>>
    /\ all_posts' = <<>>
    /\ processed_posts' = <<>>
    /\ events' = <<>>
    /\ calls' = {}
    /\ response_cached' = FALSE
    /\ UNCHANGED <<prompt_is_str, enable_summaries, query_cache, stored_run, not_svars>>

\* except Exception: emit_error(PROCESSING_ERROR), complete
AssistHandleError ==
    /\ as_pc = "except"
    /\ events' = events \o ErrorEvents
    /\ as_pc' = "returned"
    /\ UNCHANGED <<prompt_is_str, enable_summaries, cached_result,
                   processed_query, search_results, reddit_posts,
                   twitter_posts, all_posts, processed_posts>>
    /\ UNCHANGED <<response_cached, query_cache, calls, stored_run, later, not_svars>>

\* no assist call is in progress
NoAssist ==
    /\ as_pc = "none"
    /\ prompt_is_str = TRUE
    /\ enable_summaries = TRUE
    /\ cached_result = <<>>
    /\ processed_query = [search_reddit |-> FALSE, search_twitter |-> FALSE]
    /\ search_results = <<>>
    /\ reddit_posts = <<>>
    /\ twitter_posts = <<>>
    /\ all_posts = <<>>
    /\ processed_posts = <<>>
    /\ events = <<>>
    /\ response_cached = FALSE
    /\ query_cache = <<>>
    /\ calls = {}
    /\ stored_run = <<>>
    /\ later = FALSE

\* ---------------------------------------------------------------------
\* QueryProcessor (src/src/processors/query_processor.py) over the
\* analysis of AIProvider.process_query (src/src/providers/ai_provider.py)
\* ---------------------------------------------------------------------
MaxKeywords == 5              \* filtered_keywords[:5], [...][:5]
MinKeywordChars == 2          \* len(kw) > 2, len(word) > 2

\* values of the JSON the language model returns: a string with its text,
\* a number, null, a boolean (size 1 is true), an array or object with its
\* length, or a key that is absent from the object
JStr(t) == [kind |-> "str", text |-> t, size |-> Len(t)]
JNum == [kind |-> "num", text |-> <<>>, size |-> 1]
JNull == [kind |-> "null", text |-> <<>>, size |-> 0]
JBool(b) == [kind |-> "bool", text |-> <<>>, size |-> IF b THEN 1 ELSE 0]
JList(n) == [kind |-> "list", text |-> <<>>, size |-> n]
JMissing == [kind |-> "missing", text |-> <<>>, size |-> 0]
\* the value under "keywords": what it is and what iterating it yields
KList(items) == [kind |-> "list", items |-> items]
KStr(t) == [kind |-> "str", items |-> [i \in 1..Len(t) |-> JStr(<<t[i]>>)]]
KNum == [kind |-> "num", items |-> <<>>]
KNull == [kind |-> "null", items |-> <<>>]
KMissing == [kind |-> "missing", items |-> <<>>]

\* Python truth value of a JSON value
Truthy(v) ==
    CASE v.kind = "str" -> v.text # <<>>
      [] v.kind \in {"num", "bool", "list"} -> v.size > 0
      [] OTHER -> FALSE
\* len(v) raises TypeError for a number, a boolean and None
HasLen(v) == v.kind \in {"str", "list"}

StopWords ==
    {<<"t", "h", "e">>, <<"a", "n", "d">>, <<"o", "r">>, <<"b", "u", "t">>, <<"i", "n">>, <<"o", "n">>, <<"a", "t">>, <<"t", "o">>, <<"f", "o", "r">>, <<"o", "f">>, <<"w", "i", "t", "h">>, <<"b", "y">>}

\* the condition of the comprehension of _extract_keywords on one entry:
\* len(kw) > 2 and kw.lower() not in [...]
LongEnoughOrEqual(n) == n >= MinKeywordChars
LongEnough(n) == n > MinKeywordChars
EntryRaises(kw) == ~HasLen(kw) \/ (LongEnough(kw.size) /\ kw.kind # "str")
EntryKept(kw) == LongEnough(kw.size) /\ StrLower(kw.text) \notin StopWords
\* [word for word in words if len(word) > 2][:5]
LongWords(words) == Take(SelectSeq(words, LAMBDA w : LongEnough(Len(w))), MaxKeywords)

\* _extract_keywords(ai_keywords, original_query): the exception it raises,
\* "" if none, and the list it returns
ExtractKeywords(ai_keywords, original_query) ==
    LET nonempty == ai_keywords.kind \in {"num"}
                    \/ (ai_keywords.kind \in {"list", "str"} /\ ai_keywords.items # <<>>)
        filtered == SelectSeq(ai_keywords.items, EntryKept)
        words == LongWords(StrSplit(original_query))
    IN IF ~nonempty THEN [exc |-> "", keywords |-> words]
       ELSE IF ai_keywords.kind = "num" THEN [exc |-> "TypeError", keywords |-> <<>>]
       ELSE IF \E i \in DOMAIN ai_keywords.items : EntryRaises(ai_keywords.items[i])
            THEN [exc |-> "TypeError", keywords |-> <<>>]
       ELSE IF filtered # <<>>
            THEN [exc |-> "", keywords |-> Take([i \in DOMAIN filtered |-> filtered[i].text], MaxKeywords)]
       ELSE [exc |-> "", keywords |-> words]

\* str.replace(p, '') for a non-empty p
RECURSIVE RemoveSub(_, _)
RemoveSub(s, p) ==
    IF s = <<>> THEN <<>>
    ELSE IF StartsWith(s, p) THEN RemoveSub(SubSeq(s, Len(p) + 1, Len(s)), p)
    ELSE <<Head(s)>> \o RemoveSub(Tail(s), p)

TimeRanges == {<<"d", "a", "y">>, <<"w", "e", "e", "k">>, <<"m", "o", "n", "t", "h">>, <<"y", "e", "a", "r">>}
Sentiments == {<<"p", "o", "s", "i", "t", "i", "v", "e">>, <<"n", "e", "g", "a", "t", "i", "v", "e">>, <<"n", "e", "u", "t", "r", "a", "l">>, <<"a", "n", "y">>}
WeekRange == <<"w", "e", "e", "k">>
AnySentiment == <<"a", "n", "y">>
\* analysis.get(key, default)
GetOr(v, default) == IF v.kind = "missing" THEN default ELSE v

\* _build_filters(analysis); an absent subreddit key is <<>>, a present
\* one <<name>>
BuildFilters(analysis) ==
    LET subreddit == GetOr(analysis.subreddit, JNull)
        cleaned == RemoveChar(RemoveSub(subreddit.text, <<"r", "/">>), "/")
        time_range == GetOr(analysis.time_range, JStr(WeekRange))
        sentiment_value == GetOr(analysis.sentiment_filter, JStr(AnySentiment))
    IN [subreddit |-> IF Truthy(subreddit) /\ subreddit.kind = "str" /\ cleaned # <<>>
                      THEN <<cleaned>> ELSE <<>>,
        time_range |-> IF time_range.kind = "str" /\ time_range.text \in TimeRanges
                       THEN time_range.text ELSE WeekRange,
        sentiment |-> IF sentiment_value.kind = "str" /\ sentiment_value.text \in Sentiments
                      THEN sentiment_value.text ELSE AnySentiment]

\* validation of the fields of ProcessedQuery: a bool field takes a
\* boolean or one of the words for one, a str field takes a string
TrueWords == {<<"t", "r", "u", "e">>, <<"y", "e", "s">>, <<"o", "n">>, <<"1">>}
FalseWords == {<<"f", "a", "l", "s", "e">>, <<"n", "o">>, <<"o", "f", "f">>, <<"0">>}
BoolValid(v) ==
    \/ v.kind = "bool"
    \/ v.kind = "str" /\ StrLower(v.text) \in TrueWords \cup FalseWords
BoolOf(v) == IF v.kind = "bool" THEN v.size = 1 ELSE StrLower(v.text) \in TrueWords
StrValid(v) == v.kind = "str"

\* _fallback_processing(query)
FallbackProcessing(query) ==
    LET lower == StrLower(query)
        words == StrSplit(lower)
        reddit_named == HasSub(lower, <<"r", "e", "d", "d", "i", "t">>) \/ HasSub(lower, <<"s", "u", "b", "r", "e", "d", "d", "i", "t">>)
        twitter_named == HasSub(lower, <<"t", "w", "i", "t", "t", "e", "r">>) \/ HasSub(lower, <<"t", "w", "e", "e", "t">>)
        fallback_reddit == reddit_named \/ ~twitter_named
        fallback_twitter == twitter_named \/ ~reddit_named
        neither == ~fallback_reddit /\ ~fallback_twitter
        mentions == SelectSeq(words, LAMBDA w : StartsWith(w, <<"r", "/">>))
    IN [original_query |-> query,
        keywords |-> LongWords(words),
        search_reddit |-> fallback_reddit \/ neither,
        search_twitter |-> fallback_twitter \/ neither,
        filters |-> [subreddit |-> IF mentions = <<>> THEN <<>>
                                   ELSE <<SubSeq(mentions[1], 3, Len(mentions[1]))>>,
                     time_range |-> WeekRange,
                     sentiment |-> AnySentiment],
        intent |-> query,
        sentiment_filter |-> AnySentiment,
        via |-> "fallback"]

\* what the language-model call can do: fail, answer with text that is
\* not JSON, or answer with a JSON value
LlmFailures == {"raises", "not_json"}
\* AIProvider.process_query(query): the parsed JSON, or the dictionary of
\* its except clause
FallbackAnalysis(query) ==
    [is_dict |-> TRUE,
     keywords |-> KList([i \in DOMAIN Take(StrSplit(query), MaxKeywords) |-> JStr(StrSplit(query)[i])]),
     search_reddit |-> JBool(TRUE),
     search_twitter |-> JBool(TRUE),
     subreddit |-> JNull,
     time_range |-> JStr(WeekRange),
     intent |-> JStr(query),
     sentiment_filter |-> JStr(AnySentiment)]
AIProcessQuery(query, llm) ==
    IF llm.outcome \in LlmFailures THEN FallbackAnalysis(query) ELSE llm.json

\* the try block of process_query on an analysis: the exception it
\* raises, "" if none, and the ProcessedQuery it returns
TryProcess(query, analysis) ==
    LET extracted == ExtractKeywords(analysis.keywords, query)
        search_reddit == GetOr(analysis.search_reddit, JBool(TRUE))
        search_twitter == GetOr(analysis.search_twitter, JBool(TRUE))
        intent_value == GetOr(analysis.intent, JStr(query))
        sentiment_value == GetOr(analysis.sentiment_filter, JStr(AnySentiment))
        valid == /\ BoolValid(search_reddit)
                 /\ BoolValid(search_twitter)
                 /\ StrValid(intent_value)
                 /\ StrValid(sentiment_value)
    IN IF ~analysis.is_dict THEN [exc |-> "AttributeError", value |-> FallbackProcessing(query)]
       ELSE IF extracted.exc # "" THEN [exc |-> extracted.exc, value |-> FallbackProcessing(query)]
       ELSE IF ~valid THEN [exc |-> "ValidationError", value |-> FallbackProcessing(query)]
       ELSE [exc |-> "",
             value |-> [original_query |-> query,
                        keywords |-> extracted.keywords,
                        search_reddit |-> BoolOf(search_reddit),
                        search_twitter |-> BoolOf(search_twitter),
                        filters |-> BuildFilters(analysis),
                        intent |-> intent_value.text,
                        sentiment_filter |-> sentiment_value.text,
                        via |-> "analysis"]]

\* process_query(query): the except clause answers every exception of the
\* try block with _fallback_processing(query)
ProcessQuery(query, llm) ==
    LET tried == TryProcess(query, AIProcessQuery(query, llm))
    IN IF tried.exc # "" THEN FallbackProcessing(query) ELSE tried.value

\* the queries and the analyses explored
ProcessorQueries ==
    {<<"p", "y", "t", "h", "o", "n", " ", "o", "n", " ", "r", "e", "d", "d", "i", "t">>,
     <<"T", "w", "e", "e", "t", " ", "a", "b", "o", "u", "t", " ", "A", "I">>,
     <<"i", "s", " ", "r", "/", "r", "u", "s", "t", " ", "o", "k">>,
     <<"A", "I">>,
     <<>>,
     <<"T", "h", "e", " ", "R", "e", "d", "d", "i", "t", " ", "A", "n", "d", " ", "T", "w", "i", "t", "t", "e", "r">>,
     <<"o", "n", "e", " ", "t", "w", "o", " ", "t", "h", "r", "e", "e", " ", "f", "o", "u", "r", " ", "f", "i", "v", "e", " ", "s", "i", "x", " ", "s", "e", "v", "e", "n">>,
     <<"r", "/", " ", "a", "n", " ", "t", "o">>}
KeywordValues ==
    {KMissing, KNull, KNum, KStr(<<"p", "y", "t", "h", "o", "n">>), KList(<<>>),
     KList(<<JStr(<<"p", "y", "t", "h", "o", "n">>), JStr(<<"t", "h", "e">>), JStr(<<"a", "i">>)>>),
     KList(<<JStr(<<"T", "h", "e">>), JStr(<<"a", "n", "d">>), JStr(<<"o", "f">>)>>),
     KList(<<JStr(<<"r", "u", "s", "t">>), JStr(<<"a", "s", "y", "n", "c">>), JStr(<<"t", "o", "k", "i", "o">>), JStr(<<"s", "e", "r", "d", "e">>), JStr(<<"c", "a", "r", "g", "o">>), JStr(<<"c", "r", "a", "t", "e", "s">>)>>),
     KList(<<JStr(<<"p", "y", "t", "h", "o", "n">>), JNum>>),
     KList(<<JStr(<<"a", "i">>), JList(1)>>),
     KList(<<JList(3)>>),
     KList(<<JNull>>)}
Analyses ==
    {[is_dict |-> FALSE, keywords |-> KMissing, search_reddit |-> JMissing,
      search_twitter |-> JMissing, subreddit |-> JMissing, time_range |-> JMissing,
      intent |-> JMissing, sentiment_filter |-> JMissing]}
    \cup
    [is_dict : {TRUE},
     keywords : KeywordValues,
     search_reddit : {JMissing, JBool(FALSE), JNull},
     search_twitter : {JBool(FALSE), JStr(<<"y", "e", "s">>), JStr(<<"m", "a", "y", "b", "e">>)},
     subreddit : {JMissing, JStr(<<"r", "/", "p", "y", "t", "h", "o", "n">>), JNum},
     time_range : {JStr(<<"d", "a", "y">>), JStr(<<"d", "e", "c", "a", "d", "e">>)},
     intent : {JMissing, JNull},
     sentiment_filter : {JMissing, JStr(<<"n", "e", "g", "a", "t", "i", "v", "e">>), JNull}]
LlmOutcomes ==
    {[outcome |-> o, json |-> FallbackAnalysis(<<>>)] : o \in LlmFailures}
        \cup {[outcome |-> "json", json |-> a] : a \in Analyses}

\* result = await query_processor.process_query(qp_query)
ProcessQueryCall ==
    /\ pc = "query_processor"
    /\ qp_result = <<>>
    /\ qp_result' = <<ProcessQuery(qp_query, qp_llm)>>
    /\ UNCHANGED <<qp_query, qp_llm>>
    /\ UNCHANGED not_qvars

\* no process_query call is in progress
NoProcessing ==
    /\ qp_query = <<>>
    /\ qp_llm = [outcome |-> "raises", json |-> FallbackAnalysis(<<>>)]
    /\ qp_result = <<>>

\* ---------------------------------------------------------------------
\* SecurityMonitor (src/src/utils/security.py)
\* ---------------------------------------------------------------------
BlockedQueriesMaxLen == 1000  \* deque(maxlen=1000)
RetentionSeconds == 86400     \* timedelta(hours=24)
BlockedThreshold == 10        \* if recent_blocks > 10
ViolationThreshold == 5       \* if rate_limit_violations.get(client_ip, 0) > 5
MonitorTickStep == 43200      \* seconds that pass in one step of the clock
MaxMonitorTicks == 3          \* the clock advances at most this often
MaxLogs == 3                  \* log calls explored from an initial state

\* the client addresses explored; "" stands for an empty or missing one
ClientIps == {"10.0.0.1", ""}
\* the last maxlen entries of a deque
KeepLast(s, n) == IF Len(s) <= n THEN s ELSE SubSeq(s, Len(s) - n + 1, Len(s))
\* dict.get(key, default)
GetDefault(f, key, default) == IF key \in DOMAIN f THEN f[key] ELSE default
\* the list comprehension of log_blocked_query: events newer than the cutoff
NewerThan(evs, cutoff) == SelectSeq(evs, LAMBDA e : e.timestamp > cutoff)

\* log_blocked_query(query, reason, client_ip)
LogBlockedQuery(client_ip) ==
    /\ pc = "monitor"
    /\ sm_logs < MaxLogs
    /\ LET event == [timestamp |-> wall_clock, client_ip |-> client_ip]
       IN /\ blocked_queries' = KeepLast(Append(blocked_queries, event), BlockedQueriesMaxLen)
          /\ suspicious_ips' =
                IF client_ip # ""
                THEN [k \in DOMAIN suspicious_ips \cup {client_ip} |->
                        IF k = client_ip
                        THEN NewerThan(Append(GetDefault(suspicious_ips, k, <<>>), event),
                                       wall_clock - RetentionSeconds)
                        ELSE suspicious_ips[k]]
                ELSE suspicious_ips
          /\ logged' = Append(logged, event)
    /\ sm_logs' = sm_logs + 1
    /\ sm_last' = [op |-> "log_blocked_query", client_ip |-> client_ip, suspicious |-> FALSE]
    /\ UNCHANGED <<rate_limit_violations, tvars, not_mvars>>

\* log_rate_limit_violation(client_ip)
LogRateLimitViolation(client_ip) ==
    /\ pc = "monitor"
    /\ sm_logs < MaxLogs
    /\ rate_limit_violations' =
            [k \in DOMAIN rate_limit_violations \cup {client_ip} |->
                IF k = client_ip THEN GetDefault(rate_limit_violations, k, 0) + 1
                ELSE rate_limit_violations[k]]
    /\ sm_logs' = sm_logs + 1
    /\ sm_last' = [op |-> "log_rate_limit_violation", client_ip |-> client_ip, suspicious |-> FALSE]
    /\ UNCHANGED <<blocked_queries, suspicious_ips, logged, tvars, not_mvars>>

\* the value is_suspicious_ip(client_ip) returns
MoreThan(count, threshold) == count > threshold
IsSuspiciousResult(client_ip) ==
    IF client_ip = "" THEN FALSE
    ELSE \/ MoreThan(Len(GetDefault(suspicious_ips, client_ip, <<>>)), BlockedThreshold)
         \/ MoreThan(GetDefault(rate_limit_violations, client_ip, 0), ViolationThreshold)

\* is_suspicious_ip(client_ip)
IsSuspiciousIp(client_ip) ==
    /\ pc = "monitor"
    /\ sm_last' = [op |-> "is_suspicious_ip", client_ip |-> client_ip,
                   suspicious |-> IsSuspiciousResult(client_ip)]
    /\ UNCHANGED <<blocked_queries, suspicious_ips, rate_limit_violations,
                   sm_logs, logged, tvars, not_mvars>>

\* time passes
MonitorTick ==
    /\ pc = "monitor"
    /\ ticks < MaxMonitorTicks
    /\ wall_clock' = wall_clock + MonitorTickStep
    /\ ticks' = ticks + 1
    /\ UNCHANGED <<mvars, not_mvars>>

NoMonitorCall == [op |-> "none", client_ip |-> "", suspicious |-> FALSE]
\* SecurityMonitor()
NewMonitor ==
    /\ blocked_queries = <<>>
    /\ suspicious_ips = <<>>
    /\ rate_limit_violations = <<>>
    /\ sm_last = NoMonitorCall
    /\ sm_logs = 0
    /\ logged = <<>>
\* a monitor on which one address was logged, at time 0, up to either
\* threshold
UsedMonitor ==
    \E blocks \in {0, BlockedThreshold}, violations \in {0, ViolationThreshold} :
        LET ip == "10.0.0.1"
            evs == [i \in 1..blocks |-> [timestamp |-> 0, client_ip |-> ip]]
        IN /\ blocks + violations > 0
           /\ blocked_queries = evs
           /\ suspicious_ips = IF blocks > 0 THEN [k \in {ip} |-> evs] ELSE <<>>
           /\ rate_limit_violations = IF violations > 0 THEN [k \in {ip} |-> violations] ELSE <<>>
           /\ sm_last = NoMonitorCall
           /\ sm_logs = 0
           /\ logged = evs

\* ---------------------------------------------------------------------
\* EnhancedSentientServer (src/src/server.py): one HTTP request at a time
\* from its arrival to its response.  The dependency check_rate_limit and
\* the body of assist_endpoint up to "await self.agent.assist" contain no
\* await, so each is one step.
\* ---------------------------------------------------------------------
ServerMaxRequests == 60       \* RateLimiter(max_requests=60, ...) of the server
ServerWindowSeconds == 60     \* RateLimiter(..., window_seconds=60)
MaxServerRequests == 2        \* HTTP requests explored from an initial state

\* the address of the one client, as the monitor and as the limiter see it
ServerIp == "10.0.0.1"
ServerClientId == <<"1", "0", ".", "0", ".", "0", ".", "1">>
\* the paths requested: the manual endpoint and the mounted framework's
PathAssist == EndpointAssist
PathSentientAssist == <<"/", "s", "e", "n", "t", "i", "e", "n", "t">> \o EndpointAssist
ServerPaths == {PathAssist, PathSentientAssist}
\* the JSON bodies sent: with or without "query", and the prompt in it
ServerPrompts == {
    <<"w", "h", "a", "t", " ", "i", "s", " ", "a", " ", "a", "b">>,
    <<"a", "b">>,
    <<"<", "s", "c", "r", "i", "p", "t", ">", "a", "l", "e", "r", "t">> }
ServerBodies ==
    {[has_query |-> TRUE, prompt |-> p] : p \in ServerPrompts}
        \cup {[has_query |-> FALSE, prompt |-> <<>>]}

\* validate_request_data(data): the pair it returns; the message is the
\* list of the pieces the f-string puts together
ValidateRequestData(data) ==
    IF ~data.has_query THEN <<FALSE, <<"Missing 'query' field">>>>
    ELSE LET r == ValidateQuery(data.prompt)
         IN IF ~r[1] THEN <<FALSE, <<"Invalid prompt: ", r[2]>>>>
            ELSE <<TRUE, <<"">>>>

\* RateLimiter.get_reset_time(client_id): self.requests[client_id] of the
\* defaultdict, which creates an empty deque for a missing key
ResetRequests(client_id) == RequestsOf(client_id)
GetResetTime(client_id) ==
    LET client_requests == ResetRequests(client_id)
    IN IF client_requests = <<>> THEN 0
       ELSE LET reset == Head(client_requests) + rl_window_seconds - wall_clock
            IN IF reset > 0 THEN reset ELSE 0
\* self.requests after get_reset_time(client_id)
AfterGetResetTime(reqs, client_id) ==
    IF client_id \in DOMAIN reqs THEN reqs ELSE FnPut(reqs, client_id, <<>>)

NoRequest == [path |-> <<>>, body |-> [has_query |-> FALSE, prompt |-> <<>>]]
NoResponse == [status |-> 0, message |-> <<>>, retry_after |-> 0, at |-> 0]
HttpResponse(status, message, retry_after) ==
    [status |-> status, message |-> message, retry_after |-> retry_after,
     at |-> wall_clock]
\* the checks in front of agent.assist
ServerChecks == {"suspicious_ip", "rate_limit", "validation", "sanitization"}

\* _setup_sentient_routes: with an _app attribute the framework's app is
\* mounted under /sentient and assist_endpoint is never defined; without
\* one only the manual /assist exists
RouteOf(url) ==
    IF has_app
    THEN IF url = PathSentientAssist THEN "framework" ELSE "not_found"
    ELSE IF url = PathAssist THEN "dependency" ELSE "not_found"

\* a request arrives and is routed
Receive(url, body) ==
    /\ pc = "server"
    /\ srv_pc \in {"idle", "responded"}
    /\ srv_count < MaxServerRequests
    /\ srv_count' = srv_count + 1
    /\ srv_req' = [path |-> url, body |-> body]
    /\ srv_passed' = {}
    /\ srv_assist' = 0
    /\ IF RouteOf(url) = "not_found"
       THEN /\ srv_pc' = "responded"
            /\ srv_resp' = HttpResponse(404, <<"Not Found">>, 0)
       ELSE /\ srv_pc' = RouteOf(url)
            /\ srv_resp' = NoResponse
    /\ UNCHANGED <<has_app, tvars, rvars, mvars, srv_rest>>

\* the mounted framework app serves its own assist route: the agent is
\* called with the request as it came
FrameworkAssist ==
    /\ pc = "server"
    /\ srv_pc = "framework"
    /\ srv_assist' = srv_assist + 1
    /\ srv_pc' = "responded"
    /\ srv_resp' = HttpResponse(200, <<"completed">>, 0)
    /\ UNCHANGED <<has_app, srv_req, srv_passed, srv_count, tvars, rvars, mvars,
                   srv_rest>>

\* check_rate_limit, the dependency of the manual endpoint
CheckRateLimit ==
    /\ pc = "server"
    /\ srv_pc = "dependency"
    /\ IF IsSuspiciousResult(ServerIp)
       THEN /\ srv_pc' = "responded"
            /\ srv_resp' = HttpResponse(403, <<"Suspicious activity detected">>, 0)
            /\ UNCHANGED <<srv_passed, rvars, mvars>>
       ELSE LET r == IsAllowedResult(ServerClientId, EndpointAssist)
                key == RateKey(ServerClientId, EndpointAssist)
            IN IF ~r.allowed
               THEN /\ rate_limit_violations' =
                         FnPut(rate_limit_violations, ServerIp,
                               GetDefault(rate_limit_violations, ServerIp, 0) + 1)
                    /\ requests' = AfterGetResetTime(FnPut(requests, key, r.requests),
                                                     ServerClientId)
                    /\ srv_pc' = "responded"
                    /\ srv_resp' = HttpResponse(429, <<"Too many requests to ", "/assist">>,
                                                GetResetTime(ServerClientId))
                    /\ UNCHANGED <<srv_passed, rl_max_requests, rl_window_seconds,
                                   rl_last, rl_calls, admitted, rejected,
                                   blocked_queries, suspicious_ips, sm_last,
                                   sm_logs, logged>>
               ELSE /\ requests' = FnPut(requests, key, r.requests)
                    /\ srv_pc' = "endpoint"
                    /\ srv_passed' = srv_passed \cup {"suspicious_ip", "rate_limit"}
                    /\ UNCHANGED <<srv_resp, rl_max_requests, rl_window_seconds,
                                   rl_last, rl_calls, admitted, rejected, mvars>>
    /\ UNCHANGED <<has_app, srv_req, srv_assist, srv_count, tvars, srv_rest>>

\* str(e) of the HTTPException raised inside the try block
StrOfHttpException(status, detail) == <<"HTTPException", status>> \o detail

\* assist_endpoint up to the call of the agent: an invalid request is
\* logged and raises HTTPException(400) inside the try block, whose
\* "except Exception" turns it into HTTPException(500)
AssistEndpoint ==
    /\ pc = "server"
    /\ srv_pc = "endpoint"
    /\ LET v == ValidateRequestData(srv_req.body)
           event == [timestamp |-> wall_clock, client_ip |-> ServerIp]
       IN IF ~v[1]
          THEN /\ blocked_queries' = KeepLast(Append(blocked_queries, event),
                                              BlockedQueriesMaxLen)
               /\ suspicious_ips' =
                     FnPut(suspicious_ips, ServerIp,
                           NewerThan(Append(GetDefault(suspicious_ips, ServerIp, <<>>), event),
                                     wall_clock - RetentionSeconds))
               /\ logged' = Append(logged, event)
               /\ srv_pc' = "responded"
               /\ srv_resp' = HttpResponse(500,
                                  StrOfHttpException("400", <<"Invalid request">> \o v[2]), 0)
               /\ UNCHANGED <<srv_passed, srv_assist, rate_limit_violations,
                              sm_last, sm_logs>>
          ELSE /\ srv_passed' = srv_passed \cup {"validation", "sanitization"}
               /\ srv_assist' = srv_assist + 1
               /\ srv_pc' = "assist"
               /\ UNCHANGED <<srv_resp, mvars>>
    /\ UNCHANGED <<has_app, srv_req, srv_count, tvars, rvars, srv_rest>>

\* agent.assist returns and the endpoint answers with what the handler
\* collected
AssistReturns ==
    /\ pc = "server"
    /\ srv_pc = "assist"
    /\ srv_pc' = "responded"
    /\ srv_resp' = HttpResponse(200, <<"completed">>, 0)
    /\ UNCHANGED <<has_app, srv_req, srv_passed, srv_assist, srv_count, tvars,
                   rvars, mvars, srv_rest>>

\* time passes between two requests
ServerTick ==
    /\ pc = "server"
    /\ srv_pc \in {"idle", "responded"}
    /\ ticks < MaxTicks
    /\ wall_clock' = wall_clock + TickStep
    /\ ticks' = ticks + 1
    /\ UNCHANGED <<evars, rvars, mvars, srv_rest>>

\* no server is running
NoServer ==
    /\ has_app = FALSE
    /\ srv_pc = "idle"
    /\ srv_req = NoRequest
    /\ srv_resp = NoResponse
    /\ srv_passed = {}
    /\ srv_assist = 0
    /\ srv_count = 0
\* a server right after construction, with or without a framework app
NewServer ==
    /\ has_app \in BOOLEAN
    /\ srv_pc = "idle"
    /\ srv_req = NoRequest
    /\ srv_resp = NoResponse
    /\ srv_passed = {}
    /\ srv_assist = 0
    /\ srv_count = 0
\* the server's limiter, new or after the client was admitted on /assist
\* at time 0 up to one short of the limit or up to the limit
ServerRateLimiter ==
    /\ rl_max_requests = ServerMaxRequests
    /\ rl_window_seconds = ServerWindowSeconds
    /\ rl_last = NoCall
    /\ rl_calls = 0
    /\ admitted = <<>>
    /\ rejected = {}
    /\ \E earlier \in {0, LimitsFor(EndpointAssist).max_requests - 1,
                       LimitsFor(EndpointAssist).max_requests} :
          requests = IF earlier = 0 THEN <<>>
                     ELSE (RateKey(ServerClientId, EndpointAssist) :>
                              [i \in 1..earlier |-> 0])

\* ---------------------------------------------------------------------
\* CacheManager (src/src/utils/cache.py): the three caches, each with one
\* key, and the background task cleanup_loop.  Time passes while the task
\* sleeps; the calls on the caches hold the lock for their whole body.
\* ---------------------------------------------------------------------
QueryTtl == 300               \* QueryCache(max_size=500, ttl_seconds=300)
PostTtl == 600                \* LRUCache(max_size=1000, ttl_seconds=600)
AiTtl == 1800                 \* LRUCache(max_size=200, ttl_seconds=1800)
SleepSeconds == 60            \* await asyncio.sleep(60)
MaxSweeps == 32               \* sleeps after which the clock stands still
MaxManagerSets == 1           \* entries stored from an initial state
MaxSweepFailures == 1         \* iterations of cleanup_loop that raise

ManagerCaches == {"query_cache", "post_cache", "ai_cache"}
TtlOf(c) ==
    CASE c = "query_cache" -> QueryTtl
      [] c = "post_cache" -> PostTtl
      [] c = "ai_cache" -> AiTtl
\* LRUCache._is_expired for the entry of cache c
EntryExpired(c) ==
    cm_entries[c] # <<>> /\ wall_clock - cm_entries[c][1] > TtlOf(c)
\* the order of the cleanup_expired calls in one iteration
AfterCleanup(c) ==
    CASE c = "query_cache" -> "post_cache"
      [] c = "post_cache" -> "ai_cache"
      [] c = "ai_cache" -> "sleeping"
\* the clock after another SleepSeconds
LaterClock == Min(wall_clock + SleepSeconds, MaxSweeps * SleepSeconds)

\* variant: every call starts a cleanup task
ShouldStartAlways(initialized) == TRUE
\* if not self._initialized
ShouldStart(initialized) == ~initialized

\* _ensure_initialized, with no await between the test and the assignment;
\* create_task finds the running loop of the coroutine that calls it
EnsureInitialized ==
    /\ cm_initialized' = TRUE
    /\ IF ShouldStart(cm_initialized)
       THEN /\ cm_tasks' = cm_tasks + 1
            /\ sweep_pc' = "sleeping"
       ELSE UNCHANGED <<cm_tasks, sweep_pc>>

\* cache_query_result(query, result)
CacheQueryResult ==
    /\ pc = "manager"
    /\ cm_sets < MaxManagerSets
    /\ EnsureInitialized
    /\ cm_entries' = [cm_entries EXCEPT !["query_cache"] = <<wall_clock>>]
    /\ cm_sets' = cm_sets + 1
    /\ UNCHANGED <<sweep_failures, tvars, not_gvars>>

\* get_cached_query_result(query): a read drops the entry if it expired
GetCachedQueryResult ==
    /\ pc = "manager"
    /\ EnsureInitialized
    /\ cm_entries' = IF EntryExpired("query_cache")
                     THEN [cm_entries EXCEPT !["query_cache"] = <<>>]
                     ELSE cm_entries
    /\ UNCHANGED <<sweep_failures, cm_sets, tvars, not_gvars>>

\* cache_manager.post_cache.set(...) or cache_manager.ai_cache.set(...)
DirectSet(c) ==
    /\ pc = "manager"
    /\ cm_sets < MaxManagerSets
    /\ cm_entries' = [cm_entries EXCEPT ![c] = <<wall_clock>>]
    /\ cm_sets' = cm_sets + 1
    /\ UNCHANGED <<cm_initialized, cm_tasks, sweep_pc, sweep_failures, tvars,
                   not_gvars>>

\* asyncio.sleep(60) of cleanup_loop returns
SweepWake ==
    /\ pc = "manager"
    /\ sweep_pc = "sleeping"
    /\ sweep_pc' = "query_cache"
    /\ wall_clock' = LaterClock
    /\ UNCHANGED <<cm_initialized, cm_tasks, sweep_failures, cm_entries, cm_sets,
                   ticks, not_gvars>>

\* one cleanup_expired call of the iteration returns
SweepCleanup ==
    /\ pc = "manager"
    /\ sweep_pc \in ManagerCaches
    /\ cm_entries' = IF EntryExpired(sweep_pc)
                     THEN [cm_entries EXCEPT ![sweep_pc] = <<>>]
                     ELSE cm_entries
    /\ sweep_pc' = AfterCleanup(sweep_pc)
    /\ UNCHANGED <<cm_initialized, cm_tasks, sweep_failures, cm_sets, tvars,
                   not_gvars>>

\* an exception is raised inside the iteration: "except Exception" logs it
\* and the while loop goes on with the next sleep
SweepRaises ==
    /\ pc = "manager"
    /\ sweep_pc \in ManagerCaches
    /\ sweep_failures < MaxSweepFailures
    /\ sweep_failures' = sweep_failures + 1
    /\ sweep_pc' = "sleeping"
    /\ UNCHANGED <<cm_initialized, cm_tasks, cm_entries, cm_sets, tvars, not_gvars>>

\* time passes while no cleanup task exists
ManagerTick ==
    /\ pc = "manager"
    /\ sweep_pc = "none"
    /\ wall_clock < MaxSweeps * SleepSeconds
    /\ wall_clock' = LaterClock
    /\ UNCHANGED <<gvars, ticks, not_gvars>>

\* CacheManager()
NoManager ==
    /\ cm_initialized = FALSE
    /\ cm_tasks = 0
    /\ sweep_pc = "none"
    /\ sweep_failures = 0
    /\ cm_entries = [c \in ManagerCaches |-> <<>>]
    /\ cm_sets = 0

\* the objects outside the pipeline and the cache, right after construction
NewRest ==
    /\ NewClock
    /\ NewRateLimiter
    /\ NewBreaker
    /\ NoValidation
    /\ NoAgent
    /\ NoAssist
    /\ NoProcessing
    /\ NewMonitor
    /\ NoServer
    /\ NoManager

\* no process_posts call is in progress
IdlePipeline(where) ==
    /\ posts = <<>>
    /\ max_posts = 0
    /\ pc = where
    /\ summary = <<>>
    /\ sentiment = <<>>
    /\ relevance_score = <<>>
    /\ unique_posts = <<>>
    /\ filtered_posts = <<>>
    /\ task = <<>>
    /\ task_result = <<>>
    /\ semaphore = MaxConcurrent
    /\ enhanced_posts = <<>>
    /\ ranked_posts = <<>>
    /\ result = <<>>
    /\ path = "none"
    /\ now = Now0

\* process_posts(posts, query, max_posts) has just been called
InitPipeline ==
    /\ posts \in SeqsUpTo(PoolIds, MaxPosts)
    /\ max_posts \in 0..MaxPosts
    /\ pc = "start"
    /\ summary = [p \in 1..Len(posts) |-> NoneVal]
    /\ sentiment = [p \in 1..Len(posts) |-> NoneVal]
    /\ relevance_score = [p \in 1..Len(posts) |-> <<>>]
    /\ unique_posts = <<>>
    /\ filtered_posts = <<>>
    /\ task = <<>>
    /\ task_result = <<>>
    /\ semaphore = MaxConcurrent
    /\ enhanced_posts = <<>>
    /\ ranked_posts = <<>>
    /\ result = <<>>
    /\ path = "none"
    /\ now = Now0
    /\ NewCache
    /\ NewRest

\* _enhance_posts_parallel(posts, query) has just been called
InitEnhance ==
    /\ posts \in {[i \in 1..n |-> 1] : n \in 1..MaxBatch}
    /\ max_posts = 0
    /\ pc = "enhancing"
    /\ summary = [p \in 1..Len(posts) |-> NoneVal]
    /\ sentiment = [p \in 1..Len(posts) |-> NoneVal]
    /\ relevance_score = [p \in 1..Len(posts) |-> <<>>]
    /\ unique_posts = <<>>
    /\ filtered_posts = Indices(posts)
    /\ task = [i \in 1..Len(posts) |-> "pending"]
    /\ task_result = [i \in 1..Len(posts) |-> <<>>]
    /\ semaphore = MaxConcurrent
    /\ enhanced_posts = <<>>
    /\ ranked_posts = <<>>
    /\ result = <<>>
    /\ path = "none"
    /\ now = Now0
    /\ NewCache
    /\ NewRest

\* no pipeline call is in progress; the cache is in use
InitCache ==
    /\ posts = <<>>
    /\ max_posts = 0
    /\ pc = "cache"
    /\ summary = <<>>
    /\ sentiment = <<>>
    /\ relevance_score = <<>>
    /\ unique_posts = <<>>
    /\ filtered_posts = <<>>
    /\ task = <<>>
    /\ task_result = <<>>
    /\ semaphore = MaxConcurrent
    /\ enhanced_posts = <<>>
    /\ ranked_posts = <<>>
    /\ result = <<>>
    /\ path = "none"
    /\ now = Now0
    /\ NewCache
    /\ NewRest

\* a rate limiter is in use
InitRateLimiter ==
    /\ IdlePipeline("rate_limiter")
    /\ NewCache
    /\ NewClock
    /\ NewRateLimiter \/ UsedRateLimiter
    /\ NewBreaker
    /\ NoValidation
    /\ NoAgent
    /\ NoAssist
    /\ NoProcessing
    /\ NewMonitor
    /\ NoServer
    /\ NoManager

\* validate_query is about to be called on a query
InitValidator ==
    /\ IdlePipeline("validator")
    /\ NewCache
    /\ NewClock
    /\ NewRateLimiter
    /\ NewBreaker
    /\ v_query \in ValidatorQueries
    /\ v_result = <<>>
    /\ NoAgent
    /\ NoAssist
    /\ NoProcessing
    /\ NewMonitor
    /\ NoServer
    /\ NoManager

\* the process is about to import the agent module and to construct an agent
InitAgent ==
    /\ IdlePipeline("agent_init")
    /\ NewCache
    /\ NewClock
    /\ NewRateLimiter
    /\ NewBreaker
    /\ NoValidation
    /\ env \in [RequiredSettings -> BOOLEAN]
    /\ name_arg \in AgentNames
    /\ a_pc = "import"
    /\ agent = [x \in AgentAttributes |-> NoneVal]
    /\ a_error = ""
    /\ NoAssist
    /\ NoProcessing
    /\ NewMonitor
    /\ NoServer
    /\ NoManager

\* assist(session, query, response_handler) has just been called
InitAssist ==
    /\ IdlePipeline("assist")
    /\ NewCache
    /\ NewClock
    /\ NewRateLimiter
    /\ NewBreaker
    /\ NoValidation
    /\ NoAgent
    /\ as_pc = "called"
    /\ prompt_is_str \in BOOLEAN
    /\ enable_summaries \in BOOLEAN
    /\ cached_result = <<>>
    /\ processed_query = [search_reddit |-> FALSE, search_twitter |-> FALSE]
    /\ search_results = <<>>
    /\ reddit_posts = <<>>
    /\ twitter_posts = <<>>
    /\ all_posts = <<>>
    /\ processed_posts = <<>>
    /\ events = <<>>
    /\ response_cached = FALSE
    /\ query_cache \in {<<>>} \cup {<<c>> : c \in CachedResults}
    /\ calls = {}
    /\ stored_run = <<>>
    /\ later = FALSE
    /\ NoProcessing
    /\ NewMonitor
    /\ NoServer
    /\ NoManager

\* process_query is about to be called on a query; the language model
\* will behave in one of the explored ways
InitProcessor ==
    /\ IdlePipeline("query_processor")
    /\ NewCache
    /\ NewClock
    /\ NewRateLimiter
    /\ NewBreaker
    /\ NoValidation
    /\ NoAgent
    /\ NoAssist
    /\ qp_query \in ProcessorQueries
    /\ qp_llm \in LlmOutcomes
    /\ qp_result = <<>>
    /\ NewMonitor
    /\ NoServer
    /\ NoManager

\* a security monitor is in use
InitMonitor ==
    /\ IdlePipeline("monitor")
    /\ NewCache
    /\ NewClock
    /\ NewRateLimiter
    /\ NewBreaker
    /\ NoValidation
    /\ NoAgent
    /\ NoAssist
    /\ NoProcessing
    /\ NewMonitor \/ UsedMonitor
    /\ NoServer
    /\ NoManager

\* the HTTP server is up
InitServer ==
    /\ IdlePipeline("server")
    /\ NewCache
    /\ NewClock
    /\ ServerRateLimiter
    /\ NewBreaker
    /\ NoValidation
    /\ NoAgent
    /\ NoAssist
    /\ NoProcessing
    /\ NewMonitor \/ UsedMonitor
    /\ NewServer
    /\ NoManager

\* the process has started: the cache manager exists and is unused
InitManager ==
    /\ IdlePipeline("manager")
    /\ NewCache
    /\ NewRest

\* a circuit breaker is in use
InitBreaker ==
    /\ IdlePipeline("breaker")
    /\ NewCache
    /\ NewRest

NextPipeline ==
    \/ ProcessPostsStart
    \/ \E i \in DOMAIN task : AcquireSemaphore(i)
    \/ \E i \in DOMAIN task : \E se \in SentimentOutcomes :
            TaskReturns(i, "summary", se)
    \/ \E i \in DOMAIN task : TaskRaises(i)
    \/ ProcessPostsResume

NextEnhance ==
    \/ \E i \in DOMAIN task : AcquireSemaphore(i)
    \/ \E i \in DOMAIN task : \E so \in SummaryOutcomes : \E se \in {"positive", "exc"} :
            TaskReturns(i, so, se)
    \/ \E i \in DOMAIN task : TaskRaises(i)
    \/ EnhanceReturn

NextLRU ==
    \/ \E key \in LruKeys : Get(key)
    \/ \E key \in LruKeys : \E value \in Values : Set(key, value)
    \/ \E key \in LruKeys : Delete(key)
    \/ Clear
    \/ CleanupExpired
    \/ Tick

NextQueryCache ==
    \/ \E query \in Queries : GetCachedResult(query)
    \/ \E query \in Queries : CacheResult(query, "X")
    \/ Tick

NextRateLimiter ==
    \/ \E pair \in CallPairs : IsAllowed(pair[1], pair[2])
    \/ RateTick

NextBreaker ==
    \/ \E outcome \in FuncOutcomes : Call(outcome)
    \/ BreakerTick

NextValidator == ValidateQueryCall

NextAgent ==
    \/ ImportConfig
    \/ SuperInit
    \/ NewAIProvider
    \/ NewRedditProvider
    \/ NewTwitterProvider
    \/ NewJinaProvider
    \/ NewQueryProcessor
    \/ NewPostProcessor

NextAssist ==
    \/ AssistCheckCache
    \/ AssistReplayCached
    \/ AssistAnalyze
    \/ AssistSearch
    \/ AssistProcess
    \/ AssistEmitResults
    \/ AssistStream
    \/ \E outcome \in {"stored", "raised"} : AssistCacheResult(outcome)
    \/ AssistHandleError
    \/ AssistAgain

NextProcessor == ProcessQueryCall

NextMonitor ==
    \/ \E client_ip \in ClientIps : LogBlockedQuery(client_ip)
    \/ \E client_ip \in ClientIps : LogRateLimitViolation(client_ip)
    \/ \E client_ip \in ClientIps : IsSuspiciousIp(client_ip)
    \/ MonitorTick

NextServer ==
    \/ \E url \in ServerPaths, body \in ServerBodies : Receive(url, body)
    \/ FrameworkAssist
    \/ CheckRateLimit
    \/ AssistEndpoint
    \/ AssistReturns
    \/ ServerTick

NextManager ==
    \/ CacheQueryResult
    \/ GetCachedQueryResult
    \/ \E c \in {"post_cache", "ai_cache"} : DirectSet(c)
    \/ SweepWake
    \/ SweepCleanup
    \/ SweepRaises
    \/ ManagerTick

Spec == InitPipeline /\ [][NextPipeline]_vars
SpecEnhance == InitEnhance /\ [][NextEnhance]_vars
SpecLRU == InitCache /\ [][NextLRU]_vars
SpecQueryCache == InitCache /\ [][NextQueryCache]_vars
SpecRateLimiter == InitRateLimiter /\ [][NextRateLimiter]_vars
SpecBreaker == InitBreaker /\ [][NextBreaker]_vars
SpecValidator == InitValidator /\ [][NextValidator]_vars
SpecAgent == InitAgent /\ [][NextAgent]_vars
SpecAssist == InitAssist /\ [][NextAssist]_vars
SpecProcessor == InitProcessor /\ [][NextProcessor]_vars
SpecMonitor == InitMonitor /\ [][NextMonitor]_vars
SpecServer == InitServer /\ [][NextServer]_vars
SpecManager == InitManager /\ [][NextManager]_vars
\* the event loop resumes cleanup_loop when its sleep is over, and a
\* cleanup_expired call gets the lock, which no holder keeps across an await
SpecManagerFair == SpecManager /\ WF_vars(SweepWake) /\ WF_vars(SweepCleanup)


\* =====================================================================
\* Properties
\* =====================================================================
Injective(s) == \A i, j \in 1..Len(s) : s[i] = s[j] => i = j
Finished == pc = "done"
FellBack == path \in {"dedup_error", "filter_error", "rank_error"}
Score(p) == relevance_score[p][1]
\* index of position p in the sequence ps
IndexIn(ps, p) == CHOOSE i \in 1..Len(ps) : ps[i] = p

\* C1: process_posts returns at most max_posts posts, each one of the
\* input posts and none twice, on the normal and on the fallback path.
C1_BoundedDistinctResult ==
    Finished =>
        /\ Len(result) <= max_posts
        /\ \A i \in 1..Len(result) : result[i] \in 1..Len(posts)
        /\ Injective(result)

\* the normal path cut a longer ranking down to max_posts
C1_Witness ==
    /\ Finished
    /\ path = "normal"
    /\ max_posts > 0
    /\ Len(ranked_posts) > max_posts
    /\ Len(result) = max_posts

\* C2: when a stage raises, process_posts returns the first max_posts
\* posts of the original list in their original order.
C2_FallbackIsHead ==
    FellBack =>
        /\ Finished
        /\ result = [i \in 1..Min(max_posts, Len(posts)) |-> i]

\* ranking raised on a list longer than max_posts
C2_Witness ==
    /\ path = "rank_error"
    /\ max_posts > 0
    /\ Len(posts) > max_posts
    /\ Len(result) = max_posts

InFlight == {i \in DOMAIN task : task[i] = "running"}

\* C3: at most 5 per-post enrichment tasks are in flight at any moment.
C3_AtMostFiveInFlight == Cardinality(InFlight) <= 5

\* five tasks run while another waits for the exhausted semaphore
C3_Witness ==
    /\ Cardinality(InFlight) = 5
    /\ semaphore = 0
    /\ \E i \in DOMAIN task : task[i] = "pending"

\* C4: the enrichment stage returns one post per input post at the same
\* index; a task that raised is replaced by the original post.
C4_EnhancePreservesOrder ==
    pc = "enhanced" =>
        /\ Len(enhanced_posts) = Len(filtered_posts)
        /\ \A i \in 1..Len(filtered_posts) : enhanced_posts[i] = filtered_posts[i]

\* a task in the middle raised while its neighbours returned
C4_Witness ==
    /\ pc = "enhanced"
    /\ Len(filtered_posts) >= 3
    /\ task[1] = "returned"
    /\ task[2] = "raised"
    /\ task[3] = "returned"

\* C5: _rank_posts returns a permutation of its input in non-increasing
\* relevance_score order, equal scores keeping their input order.
C5_RankedSortedStable ==
    path = "normal" =>
        /\ Len(ranked_posts) = Len(enhanced_posts)
        /\ Range(ranked_posts) = Range(enhanced_posts)
        /\ \A i, j \in 1..Len(ranked_posts) :
              i < j =>
                /\ Score(ranked_posts[i]) >= Score(ranked_posts[j])
                /\ Score(ranked_posts[i]) = Score(ranked_posts[j]) =>
                      IndexIn(enhanced_posts, ranked_posts[i])
                          < IndexIn(enhanced_posts, ranked_posts[j])

\* two ranked posts have the same score
C5_Witness ==
    /\ path = "normal"
    /\ \E i, j \in 1..Len(ranked_posts) :
          i < j /\ Score(ranked_posts[i]) = Score(ranked_posts[j])

Scored == {p \in DOMAIN relevance_score : relevance_score[p] # <<>>}

\* C6: every relevance_score assigned by the ranking stage lies between
\* 0 and 1, whatever the creation times, lengths, sentiments and sources.
C6_ScoreInUnitRange ==
    \A p \in Scored : 0 <= Score(p) /\ Score(p) <= ScoreOne(enhanced_posts)

\* a is at least b in engagement, recency and length, with the same
\* sentiment and source
Dominates(a, b) ==
    /\ PostAt(a).engagement_score >= PostAt(b).engagement_score
    /\ PostAt(a).created_at >= PostAt(b).created_at
    /\ Len(PostAt(a).content) >= Len(PostAt(b).content)
    /\ sentiment[a] = sentiment[b]
    /\ PostAt(a).source = PostAt(b).source

Before(ps, a, b) == IndexIn(ps, a) < IndexIn(ps, b)

\* the two posts of the end-to-end scenario: engagement 100 aged one day,
\* engagement 10 aged seven days
ScenarioPair(a, b) ==
    /\ PostAt(a).engagement_score = 100
    /\ PostAt(a).created_at = Now0 - 24
    /\ PostAt(b).engagement_score = 10
    /\ PostAt(b).created_at = Now0 - 168

\* C7 (scenario part): the post with engagement 100 aged one day is ranked
\* above the post with engagement 10 aged seven days, and both are
\* returned when max_posts = 2.
C7_ScenarioRanking ==
    path = "normal" =>
        \A a, b \in Range(ranked_posts) :
            ScenarioPair(a, b) =>
                /\ Before(ranked_posts, a, b)
                /\ max_posts = 2 /\ Len(ranked_posts) = 2 =>
                      result = <<a, b>>

\* C7: within one ranked batch a post that dominates another has at least
\* its relevance_score and is ranked behind it only on equal scores; the
\* scenario pair is ranked as stated.
C7_DominatingPostNotBelow ==
    path = "normal" =>
        /\ \A a, b \in Range(ranked_posts) :
              a # b /\ Dominates(a, b) =>
                /\ Score(a) >= Score(b)
                /\ Before(ranked_posts, b, a) => Score(a) = Score(b)
        /\ C7_ScenarioRanking

Fingerprint(p) == NormalizedContentOf[posts[p]]

\* C8: deduplication keeps exactly the first post of every fingerprint,
\* in input order, and applying it to its own output changes nothing.
C8_DedupKeepsFirst ==
    unique_posts # <<>> =>
        /\ unique_posts =
              SelectSeq(Positions,
                        LAMBDA p : \A q \in 1..(p - 1) : Fingerprint(q) # Fingerprint(p))
        /\ RemoveDuplicates(unique_posts) = unique_posts

\* a post whose content differs from an earlier one only by case, spacing,
\* a URL, a mention and a hashtag was dropped
C8_Witness ==
    /\ Len(posts) = 2
    /\ PostAt(1).content = ContentPython
    /\ PostAt(2).content = ContentPythonNoisy
    /\ unique_posts = <<1>>

\* C9: a response stored under one query is returned by a lookup with a
\* query that differs from it only in letter case, in leading, trailing or
\* repeated whitespace and in occurrences of ? ! . , when the lookup
\* directly follows the store within the TTL.
C9_EquivalentQueryHits ==
    [][\A query \in Queries :
          ( /\ GetCachedResult(query)
            /\ last_set.valid
            /\ last_set.words = QueryWordsOf[query]
            /\ cache # <<>>
            /\ time - timestamps[cache[Len(cache)][1]] <= ttl_seconds )
          => ret' = cache[Len(cache)][2]]_vars

Held == KeysOf(cache)
AllFresh == \A k \in Held : ~IsExpired(k)
\* key k can still be read, with the value it had
StaysRetrievable(k) ==
    /\ k \in KeysOf(cache')
    /\ ValueOf(cache', k) = ValueOf(cache, k)
    /\ time' - timestamps'[k] <= ttl_seconds'

\* C10: in a cache holding max_size unexpired entries, a set of an absent
\* key removes exactly the entry whose last hit or set is the oldest and
\* leaves the others retrievable; a set of a held key evicts nothing.
C10_SetEvictsLeastRecentlyUsed ==
    [][\A key \in LruKeys : \A value \in Values :
          (Set(key, value) /\ Len(cache) = max_size /\ AllFresh) =>
              IF key \notin Held
              THEN /\ KeysOf(cache') = (Held \ {use_order[1]}) \cup {key}
                   /\ \A k \in Held \ {use_order[1]} : StaysRetrievable(k)
              ELSE /\ KeysOf(cache') = Held
                   /\ \A k \in Held \ {key} : StaysRetrievable(k)]_vars

\* b was evicted although a had been stored before it: a was read since
C10_Witness ==
    /\ last_evicted = {<<"b">>}
    /\ ret # NoneVal
    /\ Len(cache) = 2
    /\ cache[1][1] = <<"a">>
    /\ cache[2][1] = <<"c">>
    /\ timestamps[<<"a">>] < timestamps[<<"c">>]

\* C11: a get of a key whose most recent set lies more than ttl_seconds
\* back returns None and leaves the key out of both stores, however many
\* hits the key had since that set; within ttl_seconds of the set a held
\* key is still returned.
C11_ReadsDoNotExtendLifetime ==
    [][\A key \in LruKeys :
          (Get(key) /\ key \in DOMAIN set_time) =>
              IF time - set_time[key] > ttl_seconds
              THEN /\ ret' = NoneVal
                   /\ key \notin KeysOf(cache')
                   /\ key \notin DOMAIN timestamps'
              ELSE key \in Held => ret' = ValueOf(cache, key)]_vars

\* a get has just removed an expired key that was hit after its last set
C11_Witness ==
    \E key \in expired_get :
        /\ reads[key] >= 1
        /\ time - set_time[key] > ttl_seconds
        /\ ret = NoneVal
        /\ key \notin Held

\* admissions of a pair that fall within the trailing window of a call made now
InWindow(pair) ==
    SelectSeq(AdmittedOf(pair),
              LAMBDA t : t >= wall_clock - LimitsFor(pair[2]).window)
\* the maximum the configuration gives an endpoint
ConfiguredMax(endpoint) ==
    CASE endpoint = EndpointAssist -> 30
      [] endpoint = EndpointHealth -> 120
      [] endpoint = EndpointInfo -> 60
      [] endpoint = EndpointMetrics -> 10
      [] OTHER -> rl_max_requests

C13_AssistLimitedByConstructorMax ==
    [][\A client_id \in RateClients :
          IsAllowed(client_id, EndpointAssist) =>
              (rl_last'.allowed <=>
                  Len(InWindow(<<client_id, EndpointAssist>>)) < rl_max_requests)]_vars

\* time since the last failing run of func
SinceLastFailure == wall_clock - last_failure_time[1]

\* C14: a call found CLOSED leaves the breaker OPEN exactly when func fails
\* for the failure_threshold-th time without a success in between, and
\* CLOSED otherwise; a successful run sets the failure count to 0; a call
\* found OPEN less than recovery_timeout after the last failure raises
\* without running func and changes nothing.
C14_OpensAtThresholdAndFailsFast ==
    [][\A outcome \in FuncOutcomes :
          Call(outcome) =>
              /\ cb_state = "CLOSED" =>
                    /\ cb_last'.executed
                    /\ cb_state' = "OPEN" <=>
                           (outcome = "raises" /\ streak + 1 = failure_threshold)
                    /\ cb_state' \in {"OPEN", "CLOSED"}
              /\ (cb_last'.executed /\ outcome = "returns") => failure_count' = 0
              /\ (cb_state = "OPEN" /\ SinceLastFailure < recovery_timeout) =>
                    /\ ~cb_last'.executed
                    /\ cb_last'.raised
                    /\ UNCHANGED <<cb_state, failure_count, last_failure_time>>]_vars

\* the breaker opened at its fifth failure in a row, after an earlier
\* success, and a later call made before the timeout was refused
C14_Witness ==
    /\ cb_state = "OPEN"
    /\ cb_last.was = "OPEN"
    /\ ~cb_last.executed
    /\ streak = failure_threshold
    /\ failure_count = failure_threshold
    /\ wall_clock > last_failure_time[1]
    /\ last_failure_time[1] > 0

\* C15: a call found OPEN at least recovery_timeout after the last failure
\* runs func; a success leaves the breaker CLOSED with failure count 0, a
\* failure leaves it OPEN with the failure time renewed, so that calls are
\* refused again until recovery_timeout after that failure.
C15_TrialAfterRecoveryTimeout ==
    [][\A outcome \in FuncOutcomes :
          Call(outcome) =>
              /\ (cb_state = "OPEN" /\ SinceLastFailure >= recovery_timeout) =>
                    /\ cb_last'.executed
                    /\ outcome = "returns" =>
                           (cb_state' = "CLOSED" /\ failure_count' = 0)
                    /\ outcome = "raises" =>
                           /\ cb_state' = "OPEN"
                           /\ last_failure_time' = <<wall_clock>>
                           /\ cb_last'.raised
              /\ ( /\ cb_state = "OPEN"
                   /\ trial_failed # <<>>
                   /\ wall_clock - trial_failed[1] < recovery_timeout ) =>
                    (~cb_last'.executed /\ cb_state' = "OPEN")
              /\ ( /\ cb_state = "OPEN"
                   /\ trial_failed # <<>>
                   /\ wall_clock - trial_failed[1] >= recovery_timeout ) =>
                    cb_last'.executed]_vars

\* a trial run failed, and after a further recovery_timeout a second trial
\* ran and failed as well
C15_Witness ==
    /\ cb_state = "OPEN"
    /\ cb_last.was = "OPEN"
    /\ cb_last.executed
    /\ cb_last.raised
    /\ failure_count = failure_threshold + 2
    /\ trial_failed = <<wall_clock>>
    /\ wall_clock >= 2 * recovery_timeout

\* C16: validate_query rejects every query that contains <script> in any
\* letter case.
C16_ScriptTagRejected ==
    (v_result # <<>> /\ HasSub(StrLower(v_query), <<"<", "s", "c", "r", "i", "p", "t", ">">>))
        => ~v_result[1]

\* C17: with every required setting present, SentientEchoAgent('SentientEcho')
\* returns without raising, and the agent is named 'SentientEcho' and has
\* its providers, its query processor and its post processor.
C17_AgentConstructs ==
    ( /\ a_pc \in {"returned", "raised"}
      /\ \A k \in RequiredSettings : env[k]
      /\ name_arg = "SentientEcho" ) =>
        /\ a_pc = "returned"
        /\ a_error = ""
        /\ agent["name"] = "SentientEcho"
        /\ \A x \in AgentAttributes : agent[x] # NoneVal

\* C18: every assist invocation that has returned, whether through the
\* cache hit, the no-results branch, the full response or the error
\* handler, called response_handler.complete() exactly once, made no call
\* on the handler or its stream after that one, and raised nothing: the
\* only ways out of assist are its return statements and the end of its
\* except clause.
Completions == {i \in DOMAIN events : events[i] = HandlerComplete}
C18_CompleteExactlyOnce ==
    /\ Cardinality(Completions) <= 1
    /\ \A i \in Completions : i = Len(events)
    /\ as_pc = "returned" => Cardinality(Completions) = 1
    /\ as_pc \in {"none", "called", "cache_hit", "analyze", "search", "process",
                  "emit_results", "stream", "cache_result", "except", "returned"}

\* an invocation that failed in the middle of the final response, after
\* chunks were streamed, ended with the error event and one complete()
C18_Witness ==
    /\ as_pc = "returned"
    /\ EmitChunk("engagement") \in Range(events)
    /\ Len(events) >= 2
    /\ events[Len(events) - 1] = EmitError
    /\ events[Len(events)] = HandlerComplete
    /\ Cardinality(Completions) = 1

\* C19: process_query returns a ProcessedQuery for every query string,
\* whether the language-model call succeeds, fails, answers with text that
\* is not JSON or with JSON whose fields have unexpected types; the
\* keywords of the result are at most 5 and each is longer than 2
\* characters.
C19_AlwaysReturnsBoundedKeywords ==
    qp_result # <<>> =>
        /\ qp_result[1].via \in {"analysis", "fallback"}
        /\ qp_result[1].original_query = qp_query
        /\ qp_result[1].search_reddit \in BOOLEAN
        /\ qp_result[1].search_twitter \in BOOLEAN
        /\ Len(qp_result[1].keywords) <= 5
        /\ \A i \in DOMAIN qp_result[1].keywords : Len(qp_result[1].keywords[i]) > 2

\* the model answered with a keyword list holding a number: the try block
\* raised and the fallback returned the words of the query
C19_Witness ==
    /\ qp_result # <<>>
    /\ qp_llm.outcome = "json"
    /\ qp_llm.json.is_dict
    /\ \E i \in DOMAIN qp_llm.json.keywords.items : qp_llm.json.keywords.items[i].kind = "num"
    /\ qp_result[1].via = "fallback"
    /\ Len(qp_result[1].keywords) = 5

\* the blocked-query events of an address logged within the trailing 24 hours
RecentBlocks(client_ip) ==
    SelectSeq(logged, LAMBDA e : e.client_ip = client_ip
                                 /\ e.timestamp > wall_clock - RetentionSeconds)

\* C20: is_suspicious_ip(ip) is true exactly when more than 10 blocked
\* queries of ip were logged within the trailing 24 hours or ip has more
\* than 5 rate-limit violations; blocked queries older than 24 hours do not
\* count.
C20_SuspiciousIffRecentBlocksOrViolations ==
    [][\A client_ip \in ClientIps \ {""} :
          IsSuspiciousIp(client_ip) =>
              (sm_last'.suspicious <=>
                  \/ Len(RecentBlocks(client_ip)) > 10
                  \/ GetDefault(rate_limit_violations, client_ip, 0) > 5)]_vars

\* the request in hand went through check_rate_limit into assist_endpoint
\* with a prompt validate_query rejects
InvalidPromptAnswered ==
    /\ srv_pc = "responded"
    /\ "rate_limit" \in srv_passed
    /\ srv_req.body.has_query
    /\ ~ValidateQuery(srv_req.body.prompt)[1]

\* C21: a request to the manual /assist endpoint whose prompt fails
\* validation is answered with status 400 and a detail that carries the
\* validator's reason, not with status 500, and agent.assist is not
\* invoked for it.
C21_InvalidPromptIs400 ==
    InvalidPromptAnswered =>
        /\ srv_resp.status = 400
        /\ srv_resp.message = <<"Invalid request", "Invalid prompt: ",
                                ValidateQuery(srv_req.body.prompt)[2]>>
        /\ srv_assist = 0

\* the requests the limiter holds for the client on /assist
AssistRequests == RequestsOf(RateKey(ServerClientId, EndpointAssist))
\* is_allowed would reject the client on /assist at the given time
RejectedAt(t) ==
    ~UnderLimit(PopOld(AssistRequests, t - LimitsFor(EndpointAssist).window),
                LimitsFor(EndpointAssist).max_requests)

\* C24: when the rate-limit check rejects a request, the retry_after it
\* reports is the number of whole seconds until the oldest request recorded
\* for that client on that endpoint leaves the window, and so it is greater
\* than 0 whenever the client would still be rejected one second later.
C24_RetryAfterIsTimeToOldest ==
    srv_resp.status = 429 =>
        /\ AssistRequests # <<>>
        /\ srv_resp.retry_after =
              Head(AssistRequests) + LimitsFor(EndpointAssist).window - srv_resp.at
        /\ RejectedAt(srv_resp.at + 1) => srv_resp.retry_after > 0

\* C28: whichever way an HTTP request reaches SentientEchoAgent.assist,
\* through the mounted framework app or through the manual /assist
\* endpoint, it has passed the suspicious-address check, the rate limiter,
\* validation and sanitization before.
C28_AssistOnlyAfterChecks ==
    srv_assist > 0 => srv_passed = ServerChecks

\* C22: a failing summary or sentiment call for one post does not cancel
\* or fail the enrichment of any other post and leaves the post in the
\* output: its summary is None if summarization raised, its sentiment is
\* "neutral" if sentiment analysis raised, and the other field keeps the
\* value that was computed.
C22_FailedCallIsIsolated ==
    /\ [](pc = "enhanced" =>
            /\ Len(enhanced_posts) = Len(filtered_posts)
            /\ \A i \in DOMAIN filtered_posts : enhanced_posts[i] = filtered_posts[i])
    /\ [][\A i \in {j \in DOMAIN task : task[j] = "running" /\ task'[j] = "returned"} :
          \A so \in SummaryOutcomes : \A se \in {"positive", "exc"} :
            TaskReturns(i, so, se) =>
                /\ summary'[filtered_posts[i]] = (IF so = "exc" THEN NoneVal ELSE "summary")
                /\ sentiment'[filtered_posts[i]] = (IF se = "exc" THEN "neutral" ELSE se)
                /\ \A q \in DOMAIN summary \ {filtered_posts[i]} :
                      summary'[q] = summary[q] /\ sentiment'[q] = sentiment[q]
                /\ \A j \in DOMAIN task \ {i} :
                      task'[j] = task[j] /\ task_result'[j] = task_result[j]]_vars

\* enrichment is over: summarization failed for one post, which kept its
\* computed sentiment, sentiment analysis failed for another, which kept
\* its summary, and a third post got both
C22_Witness ==
    /\ pc = "enhanced"
    /\ \E a, b, c \in Range(enhanced_posts) :
          /\ summary[a] = NoneVal /\ sentiment[a] = "positive"
          /\ summary[b] = "summary" /\ sentiment[b] = "neutral"
          /\ summary[c] = "summary" /\ sentiment[c] = "positive"

\* C23: when process_posts falls back because a stage raised, the posts it
\* returns are untouched: summary, sentiment and relevance_score have the
\* values they had when process_posts was called, also when the failure
\* came after enrichment or midway through ranking.
C23_FallbackPostsUntouched ==
    FellBack =>
        \A p \in Range(result) :
            /\ summary[p] = NoneVal
            /\ sentiment[p] = NoneVal
            /\ relevance_score[p] = <<>>

\* C25: the value cached after a successful assist run contains the events
\* emitted during that run, so a later cache hit replays the same
\* QUERY_INTENT and per-source post-batch events followed by the same final
\* response text.
C25_HitReplaysStoredRun ==
    (later /\ as_pc = "returned" /\ cached_result # <<>>) =>
        /\ JsonEmits(events) = stored_run[1]
        /\ EmitChunk("final_response") \in Range(events)

\* C26: with an unexpired entry for the prompt in the cache, assist emits
\* CACHE_HIT, replays the stored events and the final response, completes
\* and calls neither the query processor, nor a source adapter, nor the
\* post-processing pipeline, nor the AI provider; a response is stored in
\* the cache only after a run that produced a final response, never after
\* the NO_RESULTS branch or an error.
C26_HitCallsNothingAndOnlyFinalResponsesAreStored ==
    /\ cached_result # <<>> =>
          /\ calls = {}
          /\ ~response_cached
          /\ as_pc \in {"cache_hit", "returned"}
    /\ (as_pc = "returned" /\ cached_result # <<>>) =>
          events = <<EmitTextBlock("CACHE_HIT")>>
                   \o ReplayEvents(cached_result[1].events)
                   \o (IF cached_result[1].final_response # ""
                       THEN <<EmitChunk("final_response"), StreamComplete>>
                       ELSE <<>>)
                   \o <<HandlerComplete>>
    /\ response_cached =>
          /\ StreamComplete \in Range(events)
          /\ EmitTextBlock("NO_RESULTS") \notin Range(events)
          /\ EmitError \notin Range(events)
    /\ (as_pc = "returned" /\ ~response_cached /\ ~later) => stored_run = <<>>

\* the later invocation found the entry the earlier run had stored and
\* returned after replaying its final response, with no collaborator called
C26_Witness ==
    /\ later
    /\ as_pc = "returned"
    /\ cached_result # <<>>
    /\ stored_run # <<>>
    /\ cached_result[1].final_response = "text"
    /\ calls = {}
    /\ events = <<EmitTextBlock("CACHE_HIT"), EmitChunk("final_response"),
                  StreamComplete, HandlerComplete>>

\* the platform words of the fallback heuristic in a query
NamesReddit(query) ==
    \/ HasSub(StrLower(query), <<"r", "e", "d", "d", "i", "t">>)
    \/ HasSub(StrLower(query), <<"s", "u", "b", "r", "e", "d", "d", "i", "t">>)
NamesTwitter(query) ==
    \/ HasSub(StrLower(query), <<"t", "w", "i", "t", "t", "e", "r">>)
    \/ HasSub(StrLower(query), <<"t", "w", "e", "e", "t">>)

\* C29: when the language-model call fails (backend unreachable or an
\* answer that is not JSON), the ProcessedQuery of process_query follows
\* the fallback heuristic: a query naming reddit/subreddit but neither
\* twitter nor tweet searches Reddit only, a query naming twitter/tweet
\* only searches Twitter only, and both are searched when neither or both
\* families are named.
C29_LlmFailureFollowsHeuristic ==
    (qp_result # <<>> /\ qp_llm.outcome \in LlmFailures) =>
        /\ qp_result[1].search_reddit = (NamesReddit(qp_query) \/ ~NamesTwitter(qp_query))
        /\ qp_result[1].search_twitter = (NamesTwitter(qp_query) \/ ~NamesReddit(qp_query))

\* C30: after any sequence of get, set, delete, clear and cleanup_expired
\* calls on an LRUCache, also by concurrently running tasks, the keys of
\* the value store are exactly the keys of the timestamp store and the
\* number of entries never exceeds max_size.
C30_StoresAgreeWithinMaxSize ==
    /\ KeysOf(cache) = DOMAIN timestamps
    /\ Cardinality(KeysOf(cache)) = Len(cache)
    /\ Len(cache) <= max_size

\* a set on a full cache, made later than one TTL after the start, evicted
\* the oldest entry and stamped the new one
C30_Witness ==
    /\ pc = "cache"
    /\ Len(cache) = max_size
    /\ last_evicted # {}
    /\ time > ttl_seconds
    /\ \E k \in DOMAIN timestamps : timestamps[k] = time

\* C27: once the cache manager has been used, every entry of the query,
\* post and AI caches that has outlived its TTL is eventually removed by
\* the periodic background sweep, also when it is never read again; the
\* sweep keeps running after one of its iterations raised, and no more
\* than one sweep task is ever started for a CacheManager.
C27_SweepRemovesExpiredEntries ==
    /\ [](cm_tasks <= 1)
    /\ [](cm_initialized => sweep_pc # "none")
    /\ \A c \in ManagerCaches : (cm_initialized /\ EntryExpired(c)) ~> ~EntryExpired(c)

\* the sweep is asleep again after an iteration that raised, one task was
\* started by several calls, and the AI cache holds an entry older than its
\* TTL that only the sweep can remove
C27_Witness ==
    /\ cm_initialized
    /\ cm_tasks = 1
    /\ sweep_failures > 0
    /\ sweep_pc = "sleeping"
    /\ EntryExpired("ai_cache")

====
